---- MODULE Spec2Model ----
(***************************************************************************)
(* x402 payer agent for ESP32: the x402_fetch driver, the SPL transfer     *)
(* transaction builder, the PDA/ATA deriver and the Base58 codec.          *)
(*                                                                         *)
(* Conventions.  A byte is an integer in 0..255.  A C string is a sequence *)
(* of one-character strings.  A uint64_t is a sequence of four 16-bit      *)
(* limbs, least significant first (TLC integers are 32 bits wide), so the  *)
(* value of <<a, b, c, d>> is a + b*2^16 + c*2^32 + d*2^48.  esp_err_t     *)
(* values are the strings "ESP_OK", "ESP_FAIL", ...                        *)
(***************************************************************************)
EXTENDS Integers, Sequences, FiniteSets, TLC

VARIABLES
    on_curve_oracle,  \* which 32-byte values unpackneg accepts (a fact of the curve)
    tx_in,            \* arguments of a direct spl_token_create_transfer_transaction call
    tx_res,           \* its result: [called, err, tx, tx_len]
    pc,               \* where the x402_fetch call stands
    calls,            \* number of x402_fetch calls started
    call,             \* the current call: were its pointers valid, was a client granted
    exchanges,        \* HTTP and RPC exchanges issued by the current call, in order
    replies,          \* what came back for them, in order
    sign_count,       \* signatures the wallet produced in the current call
    ret,              \* esp_err_t returned by the current call ("pending" before)
    response_out,     \* the caller's x402_response_t
    requirements,     \* x402_payment_requirements_t of the current call
    payment,          \* locals of x402_create_solana_payment
    g_rpc_client,     \* the module-level RPC client of the payment module
    heap,             \* the heap objects that are allocated and not yet released
    wallet,           \* the wallet: its life cycle, the blob it was made from, its keys
    wallet_log,       \* what the wallet's operations returned, in order
    codec,            \* a key, its Base58 text and what the text decodes to
    step_log,         \* the steps the current call has started, in order
    x_payment,        \* the payload sent in the X-PAYMENT header
    parse_io,         \* two 402 bodies and what the requirement parser made of each
    solana_tx,        \* a solana_tx_t under construction and what its calls returned
    wifi,             \* the WiFi manager: its statics, event bits, driver and callers
    response_data,    \* the http_response_data_t of one HTTP request
    settlement_io     \* a receipt header value and the decode buffer it goes through

vars ==
    <<on_curve_oracle, tx_in, tx_res, pc, calls, call, exchanges, replies, sign_count,
      ret, response_out, requirements, payment, g_rpc_client, heap, wallet,
      wallet_log, codec, step_log, x_payment, parse_io, solana_tx, wifi,
      response_data, settlement_io>>

\* the parts that have a specification of their own
part_vars == <<parse_io, solana_tx, wifi, response_data, settlement_io>>

-----------------------------------------------------------------------------
(* Sizes fixed by the program *)

PUBKEY_LEN == 32

SIGNATURE_LEN == 64

SPL_TOKEN_TRANSFER_INSTRUCTION == 3

TX_DATA_SIZE == 2048

PDA_BUFFER_SIZE == 1024

INSTRUCTION_DATA_SIZE == 32

(* Bounds of the model *)

\* number of distinct generated 32-byte keys the inputs are drawn from
NumKeys == 2

\* x402_fetch calls made one after the other
MaxCalls == 2

\* length of the generated maxAmountRequired strings
MaxAmountLen == 2

-----------------------------------------------------------------------------
(* Generic helpers *)

Min(a, b) == IF a < b THEN a ELSE b

Zeros(n) == [i \in 1..n |-> 0]

Reverse(s) == [i \in 1..Len(s) |-> s[Len(s) + 1 - i]]

RECURSIVE Pow(_, _)
Pow(b, e) == IF e = 0 THEN 1 ELSE b * Pow(b, e - 1)

\* strncpy(dst, src, sizeof(dst) - 1) into a zeroed buffer of `size` bytes
StrNCpy(src, size) == SubSeq(src, 1, Min(Len(src), size - 1))

-----------------------------------------------------------------------------
(* Base58 codec *)

BASE58_ALPHABET ==
    << "1","2","3","4","5","6","7","8","9",
       "A","B","C","D","E","F","G","H","J","K","L","M","N","P","Q","R","S","T",
       "U","V","W","X","Y","Z",
       "a","b","c","d","e","f","g","h","i","j","k","m","n","o","p","q","r","s",
       "t","u","v","w","x","y","z" >>

\* BASE58_DECODE_TABLE[c]: the digit of character c, -1 for any other character
BASE58_DECODE_TABLE(c) ==
    IF \E i \in 1..58 : BASE58_ALPHABET[i] = c
    THEN (CHOOSE i \in 1..58 : BASE58_ALPHABET[i] = c) - 1
    ELSE -1

base58_encode_size(input_len) == ((input_len * 138) \div 100) + 2

RECURSIVE CountLeading(_, _, _)
CountLeading(s, x, n) ==
    IF n < Len(s) /\ s[n + 1] = x THEN CountLeading(s, x, n + 1) ELSE n

\* inner loop of base58_encode: multiply the digits by 256 and add the carry
RECURSIVE EncodeMulAdd(_, _, _)
EncodeMulAdd(digits, carry, j) ==
    IF j > Len(digits) THEN [digits |-> digits, carry |-> carry]
    ELSE LET c == carry + digits[j] * 256
         IN  EncodeMulAdd([digits EXCEPT ![j] = c % 58], c \div 58, j + 1)

\* while (carry > 0): extend the digit array, failing at buffer_size
RECURSIVE EncodeExtend(_, _, _)
EncodeExtend(digits, carry, buffer_size) ==
    IF carry = 0 THEN [ok |-> TRUE, digits |-> digits]
    ELSE IF Len(digits) >= buffer_size THEN [ok |-> FALSE, digits |-> digits]
    ELSE EncodeExtend(Append(digits, carry % 58), carry \div 58, buffer_size)

RECURSIVE EncodeLoop(_, _, _, _)
EncodeLoop(input, i, digits, buffer_size) ==
    IF i > Len(input) THEN [ok |-> TRUE, digits |-> digits]
    ELSE LET m == EncodeMulAdd(digits, input[i], 1)
             e == EncodeExtend(m.digits, m.carry, buffer_size)
         IN  IF ~e.ok THEN e ELSE EncodeLoop(input, i + 1, e.digits, buffer_size)

\* bool base58_encode(input, input_len, output, output_size): [ok, out]
base58_encode(input, output_size) ==
    IF Len(input) = 0 \/ output_size = 0 THEN [ok |-> FALSE, out |-> <<>>]
    ELSE LET leading_zeros == CountLeading(input, 0, 0)
             r == EncodeLoop(input, 1, <<0>>, base58_encode_size(Len(input)))
             final_len == leading_zeros + Len(r.digits)
         IN  IF ~r.ok \/ final_len + 1 > output_size THEN [ok |-> FALSE, out |-> <<>>]
             ELSE [ok  |-> TRUE,
                   out |-> [i \in 1..leading_zeros |-> "1"]
                           \o [i \in 1..Len(r.digits) |->
                                 BASE58_ALPHABET[r.digits[Len(r.digits) + 1 - i] + 1]]]

\* inner loop of base58_decode: multiply the bytes by 58 and add the carry
RECURSIVE DecodeMulAdd(_, _, _)
DecodeMulAdd(bytes, carry, j) ==
    IF j > Len(bytes) THEN [bytes |-> bytes, carry |-> carry]
    ELSE LET c == carry + bytes[j] * 58
         IN  DecodeMulAdd([bytes EXCEPT ![j] = c % 256], c \div 256, j + 1)

RECURSIVE DecodeExtend(_, _, _)
DecodeExtend(bytes, carry, buffer_size) ==
    IF carry = 0 THEN [ok |-> TRUE, bytes |-> bytes]
    ELSE IF Len(bytes) >= buffer_size THEN [ok |-> FALSE, bytes |-> bytes]
    ELSE DecodeExtend(Append(bytes, carry % 256), carry \div 256, buffer_size)

RECURSIVE DecodeLoop(_, _, _, _)
DecodeLoop(input, i, bytes, buffer_size) ==
    IF i > Len(input) THEN [ok |-> TRUE, bytes |-> bytes]
    ELSE LET digit == BASE58_DECODE_TABLE(input[i])
         IN  IF digit < 0 THEN [ok |-> FALSE, bytes |-> bytes]
             ELSE LET m == DecodeMulAdd(bytes, digit, 1)
                      e == DecodeExtend(m.bytes, m.carry, buffer_size)
                  IN  IF ~e.ok THEN e
                      ELSE DecodeLoop(input, i + 1, e.bytes, buffer_size)

\* bool base58_decode(input, output, output_len, max_output_len): [ok, out]
base58_decode(input, max_output_len) ==
    IF Len(input) = 0 THEN [ok |-> FALSE, out |-> <<>>]
    ELSE LET r == DecodeLoop(input, 1, <<0>>, Len(input))
             zeros_to_add == CountLeading(input, "1", 0)
             final_len == zeros_to_add + Len(r.bytes)
         IN  IF ~r.ok \/ final_len > max_output_len THEN [ok |-> FALSE, out |-> <<>>]
             ELSE [ok |-> TRUE, out |-> Zeros(zeros_to_add) \o Reverse(r.bytes)]

-----------------------------------------------------------------------------
(* 64-bit unsigned integers as four 16-bit limbs, least significant first *)

U64_ZERO == <<0, 0, 0, 0>>

U64_MAX == <<65535, 65535, 65535, 65535>>

\* a small number as a uint64_t
U64(n) == <<n % 65536, n \div 65536, 0, 0>>

\* (amount >> (8 * k)) & 0xFF, for k in 0..7
U64Byte(amount, k) == (amount[(k \div 2) + 1] \div Pow(256, k % 2)) % 256

-----------------------------------------------------------------------------
(* strtoull(nptr, &endptr, 10) *)

DIGITS == <<"0", "1", "2", "3", "4", "5", "6", "7", "8", "9">>

IsDigit(c) == \E d \in 1..10 : DIGITS[d] = c

DigitValue(c) == (CHOOSE d \in 1..10 : DIGITS[d] = c) - 1

IsSpace(c) == c \in {" ", "\t", "\n", "\r"}

\* acc * 10 + d on 64 bits: [value, overflow]
U64MulAdd10(acc, d) ==
    LET l0 == acc[1] * 10 + d
        l1 == acc[2] * 10 + (l0 \div 65536)
        l2 == acc[3] * 10 + (l1 \div 65536)
        l3 == acc[4] * 10 + (l2 \div 65536)
    IN  [ value    |-> <<l0 % 65536, l1 % 65536, l2 % 65536, l3 % 65536>>,
          overflow |-> l3 \div 65536 > 0 ]

\* -acc on 64 bits (two's complement)
U64Negate(acc) ==
    LET l0 == (65535 - acc[1]) + 1
        l1 == (65535 - acc[2]) + (l0 \div 65536)
        l2 == (65535 - acc[3]) + (l1 \div 65536)
        l3 == (65535 - acc[4]) + (l2 \div 65536)
    IN  <<l0 % 65536, l1 % 65536, l2 % 65536, l3 % 65536>>

RECURSIVE SkipSpaces(_, _)
SkipSpaces(s, i) == IF i <= Len(s) /\ IsSpace(s[i]) THEN SkipSpaces(s, i + 1) ELSE i

\* the digit loop: any is 0 (no digit yet), 1 (digits read) or -1 (overflow);
\* the loop stops at the first character that is no digit
RECURSIVE ReadDigits(_, _, _, _)
ReadDigits(s, i, acc, any) ==
    IF i > Len(s) \/ ~IsDigit(s[i]) THEN [acc |-> acc, any |-> any, stop |-> i]
    ELSE LET m == U64MulAdd10(acc, DigitValue(s[i]))
         IN  IF any < 0 \/ m.overflow
             THEN ReadDigits(s, i + 1, acc, -1)
             ELSE ReadDigits(s, i + 1, m.value, 1)

\* strtoull(s, &endptr, 10): [value, consumed], consumed = endptr - s
strtoull(s) ==
    LET i0  == SkipSpaces(s, 1)
        neg == i0 <= Len(s) /\ s[i0] = "-"
        i1  == IF i0 <= Len(s) /\ s[i0] \in {"-", "+"} THEN i0 + 1 ELSE i0
        r   == ReadDigits(s, i1, U64_ZERO, 0)
    IN  [ value    |-> IF r.any < 0 THEN U64_MAX
                       ELSE IF neg THEN U64Negate(r.acc) ELSE r.acc,
          consumed |-> IF r.any = 0 THEN 0 ELSE r.stop - 1 ]

-----------------------------------------------------------------------------
(* Keys *)

\* Token Program: TokenkegQfeZyiNwAJbNbGKPFXCWuBvf9Ss623VQ5DA
SPL_TOKEN_PROGRAM_ID ==
    << 6, 221, 246, 225, 215, 101, 161, 147, 217, 203, 225, 70, 206, 235, 121, 172,
       28, 180, 133, 237, 95, 91, 55, 145, 58, 140, 245, 133, 126, 255, 0, 169 >>

\* Associated Token Program: ATokenGPvbdGVxr1b2hvZbsiqW5xWH25efTNsLJA8knL
SPL_ASSOCIATED_TOKEN_PROGRAM_ID ==
    << 140, 151, 37, 143, 78, 36, 137, 241, 187, 61, 16, 41, 20, 142, 13, 131,
       11, 90, 19, 153, 218, 255, 16, 132, 4, 142, 123, 216, 219, 233, 248, 89 >>

\* USDC devnet mint: 4zMMC9srt5Ri5X14GAgXhaHii3GnPAEERYPJgZJDncDU
USDC_DEVNET_MINT ==
    << 59, 68, 44, 179, 145, 33, 87, 241, 58, 147, 61, 1, 52, 40, 45, 3,
       43, 95, 254, 205, 1, 162, 219, 241, 183, 121, 6, 8, 223, 0, 46, 167 >>

\* Token-2022 program (an owner the mint probe may return):
\* TokenzQdBNbLqP5VEhdkAS6EPFLC1PHnBqCXEpPxuEb
TOKEN_2022_PROGRAM_ID ==
    << 6, 221, 246, 225, 238, 117, 143, 222, 24, 66, 93, 188, 228, 108, 205, 218,
       182, 26, 252, 77, 131, 185, 13, 39, 254, 189, 249, 40, 216, 161, 139, 252 >>

\* the id-th generated 32-byte key (wallets, merchants, fee payers, blockhashes)
Key(id) == [i \in 1..PUBKEY_LEN |-> (id * 41 + i * 7) % 256]

Keys == { Key(id) : id \in 1..NumKeys }

-----------------------------------------------------------------------------
(* PDA / ATA derivation *)

\* "ProgramDerivedAddress"
PDA_MARKER ==
    << 80, 114, 111, 103, 114, 97, 109, 68, 101, 114, 105, 118, 101, 100,
       65, 100, 100, 114, 101, 115, 115 >>

\* absorb data[from .. to] into the running value h, one byte after another
\* (the test on n only makes n a value before the next byte is read)
RECURSIVE AbsorbRun(_, _, _, _)
AbsorbRun(data, from, to, h) ==
    IF from > to THEN h
    ELSE LET n == (h * 33 + data[from] + 1) % 65521
         IN  IF n < 0 THEN n ELSE AbsorbRun(data, from + 1, to, n)

\* absorb data[i .. Len(data)], walked in runs of 16 bytes
RECURSIVE Absorb(_, _, _)
Absorb(data, i, h) ==
    IF i > Len(data) THEN h
    ELSE LET to == Min(i + 15, Len(data))
             n  == AbsorbRun(data, i, to, h)
         IN  IF n < 0 THEN n ELSE Absorb(data, to + 1, n)

\* sha256(data, len, hash_out): a 32-byte digest that depends on every byte of
\* the input and on its position (mbedtls computes SHA-256; the model keeps
\* only that the digest is a deterministic function of the input bytes)
sha256(data) ==
    LET h == Absorb(data, 1, 7)
    IN  [i \in 1..32 |-> ((h % 256) * (2 * i + 1) + (h \div 256) * (i + 3) + i) % 256]

CurveOracles == {"none_on_curve", "all_on_curve", "some_on_curve"}

\* is_on_curve(bytes): unpackneg(r, bytes) == 0.  Which values decompress is a
\* fixed fact of the curve that the model draws once, in Init.
is_on_curve(bytes, oracle) ==
    CASE oracle = "none_on_curve" -> FALSE
      [] oracle = "all_on_curve"  -> TRUE
      [] OTHER                    -> bytes[1] % 4 # 3

\* the concatenation of the seeds, or the error of the bounds check
RECURSIVE ConcatSeeds(_, _, _)
ConcatSeeds(seeds, i, buffer) ==
    IF i > Len(seeds) THEN [ok |-> TRUE, buffer |-> buffer]
    ELSE IF Len(buffer) + Len(seeds[i]) > PDA_BUFFER_SIZE
         THEN [ok |-> FALSE, buffer |-> buffer]
         ELSE ConcatSeeds(seeds, i + 1, buffer \o seeds[i])

\* the buffer hashed for one bump: seeds + bump + program_id + marker
PdaPreimage(seed_bytes, bump, program_id) ==
    seed_bytes \o <<bump>> \o program_id \o PDA_MARKER

FIRST_BUMP == 255

\* one iteration of the for loop of find_program_address, for one bump:
\* "ESP_OK" with the hash, "next" when the hash is on the curve, or an error
TryBump(seeds, program_id, bump, oracle) ==
    LET c == ConcatSeeds(seeds, 1, <<>>)
    IN  IF ~c.ok THEN [err |-> "ESP_ERR_NO_MEM", pda |-> <<>>, bump |-> -1]
        ELSE LET hash == sha256(PdaPreimage(c.buffer, bump, program_id))
             IN  IF ~is_on_curve(hash, oracle)
                 THEN [err |-> "ESP_OK", pda |-> hash, bump |-> bump]
                 ELSE [err |-> "next", pda |-> <<>>, bump |-> bump]

\* for (bump = from; bump >= to; bump--): the first bump that ends the loop
RECURSIVE TryBumps(_, _, _, _, _)
TryBumps(seeds, program_id, from, to, oracle) ==
    LET r == TryBump(seeds, program_id, from, oracle)
    IN  IF r.err # "next" \/ from = to THEN r
        ELSE TryBumps(seeds, program_id, from - 1, to, oracle)

\* the same loop over the bumps from `bump` down to 0, walked in runs of 16
\* (a run is bump, bump-1, ... down to the next multiple of 16)
RECURSIVE FindFrom(_, _, _, _)
FindFrom(seeds, program_id, bump, oracle) ==
    IF bump < 0 THEN [err |-> "ESP_FAIL", pda |-> <<>>, bump |-> -1]
    ELSE LET low == bump - (bump % 16)
             r == TryBumps(seeds, program_id, bump, low, oracle)
         IN  IF r.err # "next" THEN r
             ELSE FindFrom(seeds, program_id, low - 1, oracle)

\* a search that returns the hash of the first off-curve bump counting up from 0
find_program_address_Ascending(seeds, program_id, oracle) ==
    LET c   == ConcatSeeds(seeds, 1, <<>>)
        off == { b \in 0..FIRST_BUMP :
                   ~is_on_curve(sha256(PdaPreimage(c.buffer, b, program_id)), oracle) }
    IN  IF ~c.ok THEN [err |-> "ESP_ERR_NO_MEM", pda |-> <<>>, bump |-> -1]
        ELSE IF off = {} THEN [err |-> "ESP_FAIL", pda |-> <<>>, bump |-> -1]
        ELSE LET b == CHOOSE x \in off : \A y \in off : x <= y
             IN  [err |-> "ESP_OK", pda |-> sha256(PdaPreimage(c.buffer, b, program_id)),
                  bump |-> b]

find_program_address(seeds, program_id, oracle) ==
    FindFrom(seeds, program_id, FIRST_BUMP, oracle)

\* the seeds listed wallet, mint, token program
AtaSeeds_MintBeforeProgram(wallet_pubkey, mint_pubkey, token_program_id) ==
    <<wallet_pubkey, mint_pubkey, token_program_id>>

\* the seeds of an associated token account, in the order the code lists them
AtaSeeds(wallet_pubkey, mint_pubkey, token_program_id) ==
    <<wallet_pubkey, token_program_id, mint_pubkey>>

spl_token_get_associated_token_address_with_program(wallet_pubkey, mint_pubkey, token_program_id, oracle) ==
    find_program_address(AtaSeeds(wallet_pubkey, mint_pubkey, token_program_id),
                         SPL_ASSOCIATED_TOKEN_PROGRAM_ID, oracle)

-----------------------------------------------------------------------------
(* SPL transfer instruction and transaction *)

\* the eight amount bytes, most significant first
AmountBytes_BigEndian(amount) == [k \in 1..8 |-> U64Byte(amount, 8 - k)]

\* the eight amount bytes, (amount >> 0) & 0xFF first
AmountBytes(amount) == [k \in 1..8 |-> U64Byte(amount, k - 1)]

\* spl_token_build_transfer_instruction: [err, data]
spl_token_build_transfer_instruction(amount, max_instruction_len) ==
    IF max_instruction_len < 1 + 8 THEN [err |-> "ESP_ERR_NO_MEM", data |-> <<>>]
    ELSE [err  |-> "ESP_OK",
          data |-> <<SPL_TOKEN_TRANSFER_INSTRUCTION>> \o AmountBytes(amount)]

\* number of signatures announced in front of the signature slots
SignatureCount == 2

\* a header that requires one signature only
MessageHeader_OneSigner == <<1, 1, 1>>

\* message header: num_required_signatures, num_readonly_signed_accounts,
\* num_readonly_unsigned_accounts
MessageHeader == <<2, 1, 1>>

\* account keys with the token owner in front of the fee payer
AccountKeys_OwnerFirst(fee_payer, from_wallet, source_ata, dest_ata, token_program_id) ==
    <<from_wallet, fee_payer, source_ata, dest_ata, token_program_id>>

\* account keys in the order they are copied into the message
AccountKeys(fee_payer, from_wallet, source_ata, dest_ata, token_program_id) ==
    <<fee_payer, from_wallet, source_ata, dest_ata, token_program_id>>

\* program id index of the single instruction
ProgramIdIndex == 4

\* account indices of the instruction: count, source_ata, dest_ata, owner
InstructionAccounts == <<3, 2, 3, 1>>

\* One serialization step: `need` is the size the bounds check in front of the
\* step asks for, `bytes` is what the step then writes at offset, offset+1, ...
Step(need, bytes) == [need |-> need, bytes |-> bytes]

\* Step 3 of spl_token_create_transfer_transaction, in program order
TxSteps(fee_payer, from_wallet, source_ata, dest_ata, token_program_id, recent_blockhash, instruction_data) ==
    LET keys == AccountKeys(fee_payer, from_wallet, source_ata, dest_ata,
                            token_program_id)
    IN  << Step(1, <<SignatureCount>>),
           Step(SIGNATURE_LEN, Zeros(SIGNATURE_LEN)),
           Step(SIGNATURE_LEN, Zeros(SIGNATURE_LEN)),
           Step(3, MessageHeader),
           Step(1, <<Len(keys)>>) >>
        \o [i \in 1..Len(keys) |-> Step(PUBKEY_LEN, keys[i])]
        \o << Step(PUBKEY_LEN, recent_blockhash),
              Step(1, <<1>>),
              Step(1, <<ProgramIdIndex>>),
              Step(1, InstructionAccounts),
              Step(1 + Len(instruction_data),
                   <<Len(instruction_data)>> \o instruction_data) >>

\* run the steps: stop with ESP_ERR_NO_MEM at the first failing bounds check;
\* `written` is the image of tx_out[0 .. offset), whatever max_tx_len is
RECURSIVE RunSteps(_, _, _, _)
RunSteps(steps, i, written, max_tx_len) ==
    IF i > Len(steps) THEN [err |-> "ESP_OK", written |-> written]
    ELSE IF Len(written) + steps[i].need > max_tx_len
         THEN [err |-> "ESP_ERR_NO_MEM", written |-> written]
         ELSE RunSteps(steps, i + 1, written \o steps[i].bytes, max_tx_len)

\* esp_err_t spl_token_create_transfer_transaction(...):
\* [err, tx (bytes written to tx_out), tx_len (*tx_len, -1 when not set),
\* steps (what the call started: the derivation of the two token accounts
\* in Step 1, the instruction and the serialization in Steps 2 and 3)]
spl_token_create_transfer_transaction(has_null, fee_payer, from_wallet, to_wallet, mint, token_program_id, amount, recent_blockhash, max_tx_len, oracle) ==
    LET src == spl_token_get_associated_token_address_with_program(
                   from_wallet, mint, token_program_id, oracle)
        dst == spl_token_get_associated_token_address_with_program(
                   to_wallet, mint, token_program_id, oracle)
        ins == spl_token_build_transfer_instruction(amount, INSTRUCTION_DATA_SIZE)
        run == RunSteps(TxSteps(fee_payer, from_wallet, src.pda, dst.pda,
                                token_program_id, recent_blockhash, ins.data),
                        1, <<>>, max_tx_len)
        Fail(e, w, started) ==
            [err |-> e, tx |-> w, tx_len |-> -1, steps |-> started]
    IN  IF has_null THEN Fail("ESP_ERR_INVALID_ARG", <<>>, <<>>)
        ELSE IF src.err # "ESP_OK" THEN Fail(src.err, <<>>, <<"derive_atas">>)
        ELSE IF dst.err # "ESP_OK" THEN Fail(dst.err, <<>>, <<"derive_atas">>)
        ELSE IF ins.err # "ESP_OK"
        THEN Fail(ins.err, <<>>, <<"derive_atas", "assemble">>)
        ELSE IF run.err # "ESP_OK"
        THEN Fail(run.err, run.written, <<"derive_atas", "assemble">>)
        ELSE [ err |-> "ESP_OK", tx |-> run.written, tx_len |-> Len(run.written),
               steps |-> <<"derive_atas", "assemble">> ]

-----------------------------------------------------------------------------
(* Reading a serialized transaction back (used to state properties) *)

Slice(s, from, n) == SubSeq(s, from + 1, from + n)

\* offset of the message: after the count byte and that many signature slots
MessageOffset(tx) == 1 + tx[1] * SIGNATURE_LEN

\* the i-th (0-based) 32-byte entry of the account table
AccountAt(tx, i) == Slice(tx, MessageOffset(tx) + 4 + i * PUBKEY_LEN, PUBKEY_LEN)

\* offset of the instruction section (the instruction count byte)
InstructionsOffset(tx) ==
    MessageOffset(tx) + 4 + tx[MessageOffset(tx) + 4] * PUBKEY_LEN + PUBKEY_LEN

-----------------------------------------------------------------------------
(* x402 wire values *)

X402_NETWORK_SOLANA_DEVNET ==
    <<"s", "o", "l", "a", "n", "a", "-", "d", "e", "v", "n", "e", "t">>

X402_SCHEME_EXACT == <<"e", "x", "a", "c", "t">>

CURRENCY_USDC == <<"U", "S", "D", "C">>

\* char recipient[64], network[64] (asset and facilitator.fee_payer are
\* address fields of the same kind)
ADDRESS_FIELD_SIZE == 64

\* char amount[32]
AMOUNT_FIELD_SIZE == 32

\* char currency[16]
CURRENCY_FIELD_SIZE == 16

\* A member of a JSON object as cJSON_GetObjectItem + cJSON_IsString see it:
\* a string with its value, or absent / not a string.
Field(val) == [is_string |-> TRUE, val |-> val]

Missing == [is_string |-> FALSE, val |-> <<>>]

\* Base58 texts the servers send.  KEY_TEXTS[i] is the address of Key(i).
KEY_TEXTS ==
    << \* 4FDRm5zrKwDPdFEizJrmWBrZcR4x2UPnnHuBxtbz6MVA
       <<"4", "F", "D", "R", "m", "5", "z", "r", "K", "w", "D",
         "P", "d", "F", "E", "i", "z", "J", "r", "m", "W", "B",
         "r", "Z", "c", "R", "4", "x", "2", "U", "P", "n", "n",
         "H", "u", "B", "x", "t", "b", "z", "6", "M", "V", "A">>,
       \* 71tYdS6GaAPgLxVXsZESS5VqcvhCe5YQgHEqGv7t3Wr5
       <<"7", "1", "t", "Y", "d", "S", "6", "G", "a", "A", "P",
         "g", "L", "x", "V", "X", "s", "Z", "E", "S", "S", "5",
         "V", "q", "c", "v", "h", "C", "e", "5", "Y", "Q", "g",
         "H", "E", "q", "G", "v", "7", "t", "3", "W", "r", "5">>,
       \* 9nZfVnBgpPZy4fkLkoc7My97boqRAhdN5UAoP8eWHjdU
       <<"9", "n", "Z", "f", "V", "n", "B", "g", "p", "P", "Z",
         "y", "4", "f", "k", "L", "k", "o", "c", "7", "M", "y",
         "9", "7", "b", "o", "q", "R", "A", "h", "d", "N", "5",
         "U", "A", "o", "P", "8", "e", "W", "H", "j", "d", "U">>,
       \* CZEnN8H74ckFnP19e3AjPnPhGnzrVTyPJYD9UzUquKAs
       <<"C", "Z", "E", "n", "N", "8", "H", "7", "4", "c", "k",
         "F", "n", "P", "1", "9", "e", "3", "A", "j", "P", "n",
         "P", "h", "G", "n", "z", "r", "V", "T", "y", "P", "J",
         "Y", "D", "9", "U", "z", "U", "q", "u", "K", "A", "s">> >>

KeyTexts == { KEY_TEXTS[i] : i \in 1..NumKeys }

FEE_PAYER_TEXT == KEY_TEXTS[NumKeys]

\* 4zMMC9srt5Ri5X14GAgXhaHii3GnPAEERYPJgZJDncDU
MINT_TEXT ==
    <<"4", "z", "M", "M", "C", "9", "s", "r", "t", "5", "R",
      "i", "5", "X", "1", "4", "G", "A", "g", "X", "h", "a",
      "H", "i", "i", "3", "G", "n", "P", "A", "E", "E", "R",
      "Y", "P", "J", "g", "Z", "J", "D", "n", "c", "D", "U">>

\* TokenkegQfeZyiNwAJbNbGKPFXCWuBvf9Ss623VQ5DA
TOKEN_PROGRAM_TEXT ==
    <<"T", "o", "k", "e", "n", "k", "e", "g", "Q", "f", "e",
      "Z", "y", "i", "N", "w", "A", "J", "b", "N", "b", "G",
      "K", "P", "F", "X", "C", "W", "u", "B", "v", "f", "9",
      "S", "s", "6", "2", "3", "V", "Q", "5", "D", "A">>

\* TokenzQdBNbLqP5VEhdkAS6EPFLC1PHnBqCXEpPxuEb
TOKEN_2022_PROGRAM_TEXT ==
    <<"T", "o", "k", "e", "n", "z", "Q", "d", "B", "N", "b",
      "L", "q", "P", "5", "V", "E", "h", "d", "k", "A", "S",
      "6", "E", "P", "F", "L", "C", "1", "P", "H", "n", "B",
      "q", "C", "X", "E", "p", "P", "x", "u", "E", "b">>

\* ATokenGPvbdGVxr1b2hvZbsiqW5xWH25efTNsLJA8knL
ASSOCIATED_TOKEN_PROGRAM_TEXT ==
    <<"A", "T", "o", "k", "e", "n", "G", "P", "v", "b", "d",
      "G", "V", "x", "r", "1", "b", "2", "h", "v", "Z", "b",
      "s", "i", "q", "W", "5", "x", "W", "H", "2", "5", "e",
      "f", "T", "N", "s", "L", "J", "A", "8", "k", "n", "L">>

\* 97Ni4mXauQbhfmFGPpLvTDRVBrDMfkozusYSgjgrawEp
BLOCKHASH_TEXT ==
    <<"9", "7", "N", "i", "4", "m", "X", "a", "u", "Q", "b",
      "h", "f", "m", "F", "G", "P", "p", "L", "v", "T", "D",
      "R", "V", "B", "r", "D", "M", "f", "k", "o", "z", "u",
      "s", "Y", "S", "g", "j", "g", "r", "a", "w", "E", "p">>

BAD_BASE58_TEXT == <<"0", "O", "I", "l">>

SHORT_BASE58_TEXT == <<"2", "2">>

OwnerTexts ==
    { TOKEN_PROGRAM_TEXT, TOKEN_2022_PROGRAM_TEXT, ASSOCIATED_TOKEN_PROGRAM_TEXT,
      SHORT_BASE58_TEXT, BAD_BASE58_TEXT }

BlockhashTexts == {BLOCKHASH_TEXT, SHORT_BASE58_TEXT, BAD_BASE58_TEXT}

KnownTexts ==
    {<<>>, MINT_TEXT} \cup KeyTexts \cup OwnerTexts \cup BlockhashTexts

\* base58_decode into a 32-byte buffer.  The texts above are decoded once
\* and looked up afterwards; any other text is decoded on the spot.
DecodedKeys == [t \in KnownTexts |-> base58_decode(t, PUBKEY_LEN)]

DecodeKey(text) ==
    IF text \in KnownTexts THEN DecodedKeys[text]
    ELSE base58_decode(text, PUBKEY_LEN)

\* a decoding that succeeded and filled all 32 bytes
IsKey(decoded) == decoded.ok /\ Len(decoded.out) = PUBKEY_LEN

\* The device wallet: the 64-byte secret is seed || public key
WALLET_SECRET_KEY == [i \in 1..32 |-> (i * 13 + 5) % 256] \o Key(1)

\* a constructor that takes the first half of the blob for the public key
solana_wallet_from_keypair_LeadingHalf(secret_key) ==
    [ secret_key |-> secret_key,
      public_key |-> SubSeq(secret_key, 1, 32) ]

\* solana_wallet_from_keypair
solana_wallet_from_keypair(secret_key) ==
    [ secret_key |-> secret_key,
      public_key |-> SubSeq(secret_key, 33, 64) ]

\* solana_wallet_get_pubkey
solana_wallet_get_pubkey(w) == w.public_key

\* solana_wallet_get_address: [err, address]
solana_wallet_get_address(w, max_len) ==
    LET encoded == base58_encode(w.public_key, max_len)
    IN  [ err     |-> IF encoded.ok THEN "ESP_OK" ELSE "ESP_FAIL",
          address |-> encoded.out ]

\* solana_wallet_destroy: memset(wallet->secret_key, 0, 64); free(wallet)
solana_wallet_destroy(w) == [w EXCEPT !.secret_key = Zeros(64)]

\* crypto_sign (tweetnacl), first 64 bytes of its output: a deterministic
\* function of the secret key and the message
crypto_sign(message, secret_key) ==
    sha256(SubSeq(secret_key, 1, 32) \o message) \o sha256(message \o secret_key)

\* solana_wallet_sign: [err, signature]; the scratch buffer may not be granted
solana_wallet_sign(w, message, malloc_ok) ==
    IF ~malloc_ok THEN [err |-> "ESP_ERR_NO_MEM", signature |-> <<>>]
    ELSE [err |-> "ESP_OK", signature |-> crypto_sign(message, w.secret_key)]

-----------------------------------------------------------------------------
(* x402_parse_payment_requirements *)

EmptyRequirements ==
    [ recipient |-> <<>>, network |-> <<>>, asset |-> <<>>, amount |-> <<>>,
      currency |-> <<>>, fee_payer |-> <<>>, valid |-> FALSE ]

\* A 402 body as cJSON sees it: does it parse, is "accepts" an array, and the
\* elements of that array.  An element carries the members the parser reads.
PaymentOption(payTo, network, asset, maxAmountRequired, extra) ==
    [ scheme |-> Field(X402_SCHEME_EXACT),
      payTo |-> payTo, network |-> network, asset |-> asset,
      maxAmountRequired |-> maxAmountRequired, extra |-> extra ]

\* the same element announcing another "scheme", a member the parser never reads
WithScheme(option, scheme) == [option EXCEPT !.scheme = scheme]

Extra(is_object, feePayer) == [is_object |-> is_object, feePayer |-> feePayer]

\* a parser that falls back to a fee payer of its own
ParseFeePayer_Fallback(option) ==
    IF option.extra.is_object /\ option.extra.feePayer.is_string
    THEN StrNCpy(option.extra.feePayer.val, ADDRESS_FIELD_SIZE)
    ELSE FEE_PAYER_TEXT

\* "extra.feePayer" of an option: copied when extra is an object and
\* feePayer a string, left empty otherwise
ParseFeePayer(option) ==
    IF option.extra.is_object /\ option.extra.feePayer.is_string
    THEN StrNCpy(option.extra.feePayer.val, ADDRESS_FIELD_SIZE)
    ELSE <<>>

\* a parser for which "payTo" is optional too
x402_parse_payment_requirements_PayToOptional(doc) ==
    LET r0 == EmptyRequirements
    IN
    IF ~doc.parses \/ ~doc.accepts_is_array \/ Len(doc.accepts) = 0
    THEN [err |-> "ESP_FAIL", requirements |-> r0]
    ELSE
    LET option == doc.accepts[1]
        r5 == [ r0 EXCEPT
                  !.recipient = StrNCpy(option.payTo.val, ADDRESS_FIELD_SIZE),
                  !.network = IF option.network.is_string
                              THEN StrNCpy(option.network.val, ADDRESS_FIELD_SIZE)
                              ELSE StrNCpy(X402_NETWORK_SOLANA_DEVNET, ADDRESS_FIELD_SIZE),
                  !.asset = StrNCpy(option.asset.val, ADDRESS_FIELD_SIZE),
                  !.amount = StrNCpy(option.maxAmountRequired.val, AMOUNT_FIELD_SIZE),
                  !.currency = StrNCpy(CURRENCY_USDC, CURRENCY_FIELD_SIZE),
                  !.fee_payer = ParseFeePayer(option) ]
    IN
    IF ~option.maxAmountRequired.is_string
    THEN [err |-> "ESP_FAIL", requirements |-> r0]
    ELSE [err |-> "ESP_OK", requirements |-> [r5 EXCEPT !.valid = TRUE]]

\* a parser that takes the last element of "accepts"
x402_parse_payment_requirements_LastOption(doc) ==
    LET r0 == EmptyRequirements
    IN
    IF ~doc.parses THEN [err |-> "ESP_FAIL", requirements |-> r0]
    ELSE IF ~doc.accepts_is_array \/ Len(doc.accepts) = 0
    THEN [err |-> "ESP_FAIL", requirements |-> r0]
    ELSE
    LET option == doc.accepts[Len(doc.accepts)]
        r1 == [r0 EXCEPT !.recipient = StrNCpy(option.payTo.val, ADDRESS_FIELD_SIZE)]
        r2 == [r1 EXCEPT !.network =
                  IF option.network.is_string
                  THEN StrNCpy(option.network.val, ADDRESS_FIELD_SIZE)
                  ELSE StrNCpy(X402_NETWORK_SOLANA_DEVNET, ADDRESS_FIELD_SIZE)]
        r3 == IF option.asset.is_string
              THEN [r2 EXCEPT !.asset = StrNCpy(option.asset.val, ADDRESS_FIELD_SIZE)]
              ELSE r2
        r4 == [r3 EXCEPT !.amount = StrNCpy(option.maxAmountRequired.val, AMOUNT_FIELD_SIZE),
                         !.currency = StrNCpy(CURRENCY_USDC, CURRENCY_FIELD_SIZE)]
        r5 == [r4 EXCEPT !.fee_payer = ParseFeePayer(option)]
    IN
    IF ~option.payTo.is_string THEN [err |-> "ESP_FAIL", requirements |-> r0]
    ELSE IF ~option.maxAmountRequired.is_string
    THEN [err |-> "ESP_FAIL", requirements |-> r3]
    ELSE [err |-> "ESP_OK", requirements |-> [r5 EXCEPT !.valid = TRUE]]

\* The parser fills the record field by field and returns at the first
\* missing mandatory member; what was filled before stays filled.
x402_parse_payment_requirements(doc) ==
    LET r0 == EmptyRequirements
    IN
    IF ~doc.parses THEN [err |-> "ESP_FAIL", requirements |-> r0]
    ELSE IF ~doc.accepts_is_array \/ Len(doc.accepts) = 0
    THEN [err |-> "ESP_FAIL", requirements |-> r0]
    ELSE
    LET option == doc.accepts[1]
        r1 == [r0 EXCEPT !.recipient = StrNCpy(option.payTo.val, ADDRESS_FIELD_SIZE)]
        r2 == [r1 EXCEPT !.network =
                  IF option.network.is_string
                  THEN StrNCpy(option.network.val, ADDRESS_FIELD_SIZE)
                  ELSE StrNCpy(X402_NETWORK_SOLANA_DEVNET, ADDRESS_FIELD_SIZE)]
        r3 == IF option.asset.is_string
              THEN [r2 EXCEPT !.asset = StrNCpy(option.asset.val, ADDRESS_FIELD_SIZE)]
              ELSE r2
        r4 == [r3 EXCEPT !.amount = StrNCpy(option.maxAmountRequired.val, AMOUNT_FIELD_SIZE),
                         !.currency = StrNCpy(CURRENCY_USDC, CURRENCY_FIELD_SIZE)]
        r5 == [r4 EXCEPT !.fee_payer = ParseFeePayer(option)]
    IN
    IF ~option.payTo.is_string THEN [err |-> "ESP_FAIL", requirements |-> r0]
    ELSE IF ~option.maxAmountRequired.is_string
    THEN [err |-> "ESP_FAIL", requirements |-> r3]
    ELSE [err |-> "ESP_OK", requirements |-> [r5 EXCEPT !.valid = TRUE]]

-----------------------------------------------------------------------------
(* x402_create_solana_payment, up to the first RPC *)

NoPayment ==
    [ recipient_pubkey |-> <<>>, mint_pubkey |-> <<>>, amount |-> U64_ZERO,
      fee_payer_pubkey |-> <<>>, token_program_id |-> <<>> ]

\* an amount test without the test for zero
ParseAmount_AcceptsZero(amount_str) ==
    LET p == strtoull(amount_str)
    IN  IF p.consumed = 0 \/ p.consumed < Len(amount_str)
        THEN [ok |-> FALSE, amount |-> p.value]
        ELSE [ok |-> TRUE, amount |-> p.value]

\* an amount scaled by 10^6, the six decimals of USDC, before it is used
ParseAmount_ScaledByDecimals(amount_str) ==
    LET p  == strtoull(amount_str)
        m1 == U64MulAdd10(p.value, 0).value
        m2 == U64MulAdd10(m1, 0).value
        m3 == U64MulAdd10(m2, 0).value
        m4 == U64MulAdd10(m3, 0).value
        m5 == U64MulAdd10(m4, 0).value
        m6 == U64MulAdd10(m5, 0).value
    IN  IF p.consumed = 0 \/ p.consumed < Len(amount_str)
        THEN [ok |-> FALSE, amount |-> p.value]
        ELSE IF p.value = U64_ZERO THEN [ok |-> FALSE, amount |-> p.value]
        ELSE [ok |-> TRUE, amount |-> m6]

\* strtoull and the two tests that follow it: [ok, amount]
ParseAmount(amount_str) ==
    LET p == strtoull(amount_str)
    IN  IF p.consumed = 0 \/ p.consumed < Len(amount_str)
        THEN [ok |-> FALSE, amount |-> p.value]
        ELSE IF p.value = U64_ZERO THEN [ok |-> FALSE, amount |-> p.value]
        ELSE [ok |-> TRUE, amount |-> p.value]

\* Steps 1-4: decode recipient and mint, parse the amount, decode the fee
\* payer.  [err, payment]; on ESP_OK the next thing the function does is
\* the mint-program probe.
PreparePayment(req) ==
    LET recipient == DecodeKey(req.recipient)
        mint      == DecodeKey(req.asset)
        parsed    == ParseAmount(req.amount)
        fee_payer == DecodeKey(req.fee_payer)
        Fail(e)   == [err |-> e, payment |-> NoPayment]
    IN
    IF ~req.valid THEN Fail("ESP_ERR_INVALID_STATE")
    ELSE IF ~IsKey(recipient) THEN Fail("ESP_FAIL")
    ELSE IF ~IsKey(mint) THEN Fail("ESP_FAIL")
    ELSE IF ~parsed.ok THEN Fail("ESP_FAIL")
    ELSE IF Len(req.fee_payer) = 0 THEN Fail("ESP_FAIL")
    ELSE IF ~IsKey(fee_payer) THEN Fail("ESP_FAIL")
    ELSE [ err |-> "ESP_OK",
           payment |-> [ recipient_pubkey |-> recipient.out,
                         mint_pubkey |-> mint.out,
                         amount |-> parsed.amount,
                         fee_payer_pubkey |-> fee_payer.out,
                         token_program_id |-> <<>> ] ]

-----------------------------------------------------------------------------
(* Base64 (mbedtls) and JSON text (cJSON) *)

BASE64_ALPHABET ==
    << "A", "B", "C", "D", "E", "F", "G", "H", "I", "J", "K", "L", "M",
       "N", "O", "P", "Q", "R", "S", "T", "U", "V", "W", "X", "Y", "Z",
       "a", "b", "c", "d", "e", "f", "g", "h", "i", "j", "k", "l", "m",
       "n", "o", "p", "q", "r", "s", "t", "u", "v", "w", "x", "y", "z",
       "0", "1", "2", "3", "4", "5", "6", "7", "8", "9", "+", "/" >>

\* the value of a Base64 digit
BASE64_INDEX ==
    [c \in { BASE64_ALPHABET[i] : i \in 1..Len(BASE64_ALPHABET) } |->
       (CHOOSE i \in 1..Len(BASE64_ALPHABET) : BASE64_ALPHABET[i] = c) - 1]

\* the characters with codes 32..95 and 97..126
ASCII_32_TO_95 ==
    << " ", "!", "\"", "#", "$", "%", "&", "'", "(", ")", "*", "+", ",", "-", ".", "/",
       "0", "1", "2", "3", "4", "5", "6", "7", "8", "9", ":", ";", "<", "=", ">", "?",
       "@", "A", "B", "C", "D", "E", "F", "G", "H", "I", "J", "K", "L", "M", "N", "O",
       "P", "Q", "R", "S", "T", "U", "V", "W", "X", "Y", "Z", "[", "\\", "]", "^", "_" >>

ASCII_97_TO_126 ==
    << "a", "b", "c", "d", "e", "f", "g", "h", "i", "j", "k", "l", "m", "n", "o",
       "p", "q", "r", "s", "t", "u", "v", "w", "x", "y", "z", "{", "|", "}", "~" >>

\* the code of a character of a C string
CHAR_CODE ==
    [c \in { ASCII_32_TO_95[i] : i \in 1..Len(ASCII_32_TO_95) }
           \cup { ASCII_97_TO_126[i] : i \in 1..Len(ASCII_97_TO_126) } |->
       IF \E i \in 1..Len(ASCII_32_TO_95) : ASCII_32_TO_95[i] = c
       THEN 31 + CHOOSE i \in 1..Len(ASCII_32_TO_95) : ASCII_32_TO_95[i] = c
       ELSE 96 + CHOOSE i \in 1..Len(ASCII_97_TO_126) : ASCII_97_TO_126[i] = c]

\* (const uint8_t *)str: the bytes of a C string
StringBytes(str) == [i \in 1..Len(str) |-> CHAR_CODE[str[i]]]

\* the weight of the j-th (0-based) 6-bit digit in a 24-bit group
SextetWeight(j) == CASE j = 0 -> 262144 [] j = 1 -> 4096 [] j = 2 -> 64 [] OTHER -> 1

\* the weight of the j-th (0-based) byte in a 24-bit group
OctetWeight(j) == CASE j = 0 -> 65536 [] j = 1 -> 256 [] OTHER -> 1

\* mbedtls_base64_encode: the text, without the terminating NUL
mbedtls_base64_encode(src) ==
    LET n == Len(src)
        At(i) == IF i <= n THEN src[i] ELSE 0
    IN  [i \in 1..(4 * ((n + 2) \div 3)) |->
           LET k == (i - 1) \div 4
               j == (i - 1) % 4
               v == At(3 * k + 1) * 65536 + At(3 * k + 2) * 256 + At(3 * k + 3)
           IN  IF j >= 2 /\ 3 * k + j > n THEN "="
               ELSE BASE64_ALPHABET[((v \div SextetWeight(j)) % 64) + 1]]

\* mbedtls_base64_decode of a text without white space: [ok, out]
mbedtls_base64_decode(src) ==
    LET n   == Len(src)
        pad == IF n >= 1 /\ src[n] = "="
               THEN (IF n >= 2 /\ src[n - 1] = "=" THEN 2 ELSE 1)
               ELSE 0
        Val(i) == IF i > n - pad THEN 0 ELSE BASE64_INDEX[src[i]]
    IN  IF n % 4 # 0 \/ \E i \in 1..(n - pad) : src[i] \notin DOMAIN BASE64_INDEX
        THEN [ok |-> FALSE, out |-> <<>>]
        ELSE [ ok  |-> TRUE,
               out |-> [i \in 1..(3 * (n \div 4) - pad) |->
                          LET k == (i - 1) \div 3
                              v == Val(4 * k + 1) * 262144 + Val(4 * k + 2) * 4096
                                   + Val(4 * k + 3) * 64 + Val(4 * k + 4)
                          IN  (v \div OctetWeight((i - 1) % 3)) % 256] ]

\* x402_base64_encode(data, data_len, encoded_out, max_len, &out_len):
\* [err, text]; the required length counts the terminating NUL
x402_base64_encode(data, max_len) ==
    LET text == mbedtls_base64_encode(data)
    IN  IF Len(text) + 1 > max_len THEN [err |-> "ESP_ERR_NO_MEM", text |-> <<>>]
        ELSE [err |-> "ESP_OK", text |-> text]

\* cJSON items: a number, a string, or an object with its members in the
\* order they were added
JsonNumber(n) == [type |-> "number", n |-> n]

JsonString(s) == [type |-> "string", s |-> s]

JsonObject(members) == [type |-> "object", members |-> members]

JsonMember(name, item) == [name |-> name, item |-> item]

\* a non-negative int printed in decimal
RECURSIVE IntText(_)
IntText(n) == IF n < 10 THEN <<DIGITS[n + 1]>> ELSE IntText(n \div 10) \o <<DIGITS[(n % 10) + 1]>>

\* a string printed by cJSON: quoted, with the quote and the backslash escaped
RECURSIVE JsonEscape(_, _)
JsonEscape(s, i) ==
    IF i > Len(s) THEN <<>>
    ELSE (IF s[i] \in {"\"", "\\"} THEN <<"\\", s[i]>> ELSE <<s[i]>>) \o JsonEscape(s, i + 1)

JsonQuoted(s) ==
    IF \E i \in 1..Len(s) : s[i] \in {"\"", "\\"}
    THEN <<"\"">> \o JsonEscape(s, 1) \o <<"\"">>
    ELSE <<"\"">> \o s \o <<"\"">>

\* cJSON_PrintUnformatted
RECURSIVE cJSON_PrintUnformatted(_)
RECURSIVE PrintMembers(_, _)
PrintMembers(members, i) ==
    IF i > Len(members) THEN <<>>
    ELSE (IF i > 1 THEN <<",">> ELSE <<>>)
         \o JsonQuoted(members[i].name) \o <<":">>
         \o cJSON_PrintUnformatted(members[i].item)
         \o PrintMembers(members, i + 1)

cJSON_PrintUnformatted(item) ==
    CASE item.type = "number" -> IntText(item.n)
      [] item.type = "string" -> JsonQuoted(item.s)
      [] OTHER -> <<"{">> \o PrintMembers(item.members, 1) \o <<"}">>

-----------------------------------------------------------------------------
(* The RPC steps of x402_create_solana_payment *)

\* What esp_http_client_perform reports when the exchange itself fails
ESP_ERR_HTTP_CONNECT == "ESP_ERR_HTTP_CONNECT"

\* An RPC reply as the code reads it: the transport result, the status, and
\* the body (absent, not JSON, or JSON with the one member that is read)
RpcReply(err, status_code, is_null, parses, member) ==
    [ err |-> err, status_code |-> status_code,
      body |-> [is_null |-> is_null, parses |-> parses, member |-> member] ]

\* spl_token_get_mint_program after esp_http_client_perform: [err, program_id];
\* member is result.value.owner
spl_token_get_mint_program(reply) ==
    LET owner == DecodeKey(reply.body.member.val)
        Fail(e) == [err |-> e, program_id |-> <<>>]
    IN
    IF reply.err # "ESP_OK" THEN Fail(reply.err)
    ELSE IF reply.status_code # 200 \/ reply.body.is_null THEN Fail("ESP_FAIL")
    ELSE IF ~reply.body.parses THEN Fail("ESP_FAIL")
    ELSE IF ~reply.body.member.is_string THEN Fail("ESP_FAIL")
    ELSE IF ~IsKey(owner) THEN Fail("ESP_FAIL")
    ELSE [err |-> "ESP_OK", program_id |-> owner.out]

\* a builder that always names the classic Token program
x402_build_payment_transaction_ClassicOnly(w, pay, reply, oracle) ==
    LET blockhash == DecodeKey(reply.body.member.val)
        Fail(e)   == [err |-> e, tx |-> <<>>, tx_len |-> 0, steps |-> <<>>]
    IN
    IF reply.err # "ESP_OK" \/ reply.status_code # 200 \/ reply.body.is_null
    THEN Fail("ESP_FAIL")
    ELSE IF ~reply.body.parses \/ ~reply.body.member.is_string \/ ~IsKey(blockhash)
    THEN Fail("ESP_FAIL")
    ELSE spl_token_create_transfer_transaction(
             FALSE, pay.fee_payer_pubkey, solana_wallet_get_pubkey(w),
             pay.recipient_pubkey, pay.mint_pubkey,
             SPL_TOKEN_PROGRAM_ID, pay.amount, blockhash.out,
             TX_DATA_SIZE, oracle)

\* x402_build_payment_transaction after solana_rpc_get_latest_blockhash:
\* [err, tx, tx_len]; member is result.value.blockhash
x402_build_payment_transaction(w, pay, reply, oracle) ==
    LET success   == reply.err = "ESP_OK" /\ reply.status_code = 200
                     /\ ~reply.body.is_null
        blockhash == DecodeKey(reply.body.member.val)
        Fail(e)   == [err |-> e, tx |-> <<>>, tx_len |-> 0, steps |-> <<>>]
    IN
    IF reply.err # "ESP_OK" \/ ~success THEN Fail("ESP_FAIL")
    ELSE IF ~reply.body.parses THEN Fail("ESP_FAIL")
    ELSE IF ~reply.body.member.is_string THEN Fail("ESP_FAIL")
    ELSE IF ~IsKey(blockhash) THEN Fail("ESP_FAIL")
    ELSE spl_token_create_transfer_transaction(
             FALSE, pay.fee_payer_pubkey, solana_wallet_get_pubkey(w),
             pay.recipient_pubkey, pay.mint_pubkey,
             pay.token_program_id, pay.amount, blockhash.out,
             TX_DATA_SIZE, oracle)

\* Step 7: the wallet signs tx[129 ..) and the signature goes into the
\* second slot, bytes [65, 129)
SIGNED_MESSAGE_OFFSET == 129

USER_SIGNATURE_OFFSET == 65

\* a signer that writes the signature into the first slot, bytes [1, 65)
SignTransaction_FirstSlot(w, tx, malloc_ok) ==
    LET message == SubSeq(tx, SIGNED_MESSAGE_OFFSET + 1, Len(tx))
        s == solana_wallet_sign(w, message, malloc_ok)
    IN  IF s.err # "ESP_OK" THEN [err |-> s.err, tx |-> tx]
        ELSE [ err |-> "ESP_OK",
               tx  |-> [i \in 1..Len(tx) |->
                          IF i > 1 /\ i <= 1 + SIGNATURE_LEN
                          THEN s.signature[i - 1]
                          ELSE tx[i]] ]

SignTransaction(w, tx, malloc_ok) ==
    LET message == SubSeq(tx, SIGNED_MESSAGE_OFFSET + 1, Len(tx))
        s == solana_wallet_sign(w, message, malloc_ok)
    IN  IF s.err # "ESP_OK" THEN [err |-> s.err, tx |-> tx]
        ELSE [ err |-> "ESP_OK",
               tx  |-> [i \in 1..Len(tx) |->
                          IF i > USER_SIGNATURE_OFFSET
                             /\ i <= USER_SIGNATURE_OFFSET + SIGNATURE_LEN
                          THEN s.signature[i - USER_SIGNATURE_OFFSET]
                          ELSE tx[i]] ]

\* char *tx_b64 = malloc(4096)
TX_B64_SIZE == 4096

\* Step 9: the payment payload; payload.transaction is the Base64 text of
\* the signed transaction (NULL, here empty, before it is set)
NoPayload ==
    [ x402_version |-> 0, scheme |-> <<>>, network |-> <<>>, transaction |-> <<>> ]

PAYLOAD_SCHEME_SIZE == 32

PaymentPayload(req, tx_b64) ==
    [ x402_version |-> 1,
      scheme       |-> StrNCpy(X402_SCHEME_EXACT, PAYLOAD_SCHEME_SIZE),
      network      |-> StrNCpy(req.network, ADDRESS_FIELD_SIZE),
      transaction  |-> tx_b64 ]

\* the member names of the payment payload's JSON form
KEY_X402_VERSION == <<"x", "4", "0", "2", "V", "e", "r", "s", "i", "o", "n">>

KEY_SCHEME == <<"s", "c", "h", "e", "m", "e">>

KEY_NETWORK == <<"n", "e", "t", "w", "o", "r", "k">>

KEY_PAYLOAD == <<"p", "a", "y", "l", "o", "a", "d">>

KEY_TRANSACTION == <<"t", "r", "a", "n", "s", "a", "c", "t", "i", "o", "n">>

\* a serializer that nests scheme, network and payload under "kind"
x402_payload_to_json_Nested(payload) ==
    cJSON_PrintUnformatted(JsonObject(<<
        JsonMember(KEY_X402_VERSION, JsonNumber(payload.x402_version)),
        JsonMember(<<"k", "i", "n", "d">>, JsonObject(<<
            JsonMember(KEY_SCHEME, JsonString(payload.scheme)),
            JsonMember(KEY_NETWORK, JsonString(payload.network)),
            JsonMember(KEY_PAYLOAD, JsonObject(<<
                JsonMember(KEY_TRANSACTION, JsonString(payload.transaction)) >>)) >>)) >>))

\* x402_payload_to_json: the flat object, printed
x402_payload_to_json(payload) ==
    cJSON_PrintUnformatted(JsonObject(<<
        JsonMember(KEY_X402_VERSION, JsonNumber(payload.x402_version)),
        JsonMember(KEY_SCHEME, JsonString(payload.scheme)),
        JsonMember(KEY_NETWORK, JsonString(payload.network)),
        JsonMember(KEY_PAYLOAD, JsonObject(<<
            JsonMember(KEY_TRANSACTION, JsonString(payload.transaction)) >>)) >>))

\* x402_encode_payment_payload: JSON, then Base64: [err, text]
x402_encode_payment_payload(payload, max_len) ==
    x402_base64_encode(StringBytes(x402_payload_to_json(payload)), max_len)

\* char *payment_encoded = malloc(8192)
PAYMENT_ENCODED_SIZE == 8192

\* char *retry_headers = malloc(16384)
RETRY_HEADERS_SIZE == 16384

X402_HEADER_PAYMENT == <<"X", "-", "P", "A", "Y", "M", "E", "N", "T">>

\* snprintf(retry_headers, 16384, "%s: %s", X402_HEADER_PAYMENT,
\* payment_encoded), the caller having passed no headers of its own
RetryHeaders(payment_encoded) ==
    StrNCpy(X402_HEADER_PAYMENT \o <<":", " ">> \o payment_encoded, RETRY_HEADERS_SIZE)

\* http_request, custom headers: a line is cut at its first colon and the
\* spaces that follow are skipped; [name, value] is what
\* esp_http_client_set_header receives
RECURSIVE SkipBlanks(_, _)
SkipBlanks(line, i) ==
    IF i <= Len(line) /\ line[i] = " " THEN SkipBlanks(line, i + 1) ELSE i

ParseHeaderLine(line) ==
    IF \A i \in 1..Len(line) : line[i] # ":" THEN [name |-> <<>>, value |-> <<>>]
    ELSE LET colon == CHOOSE i \in 1..Len(line) :
                          line[i] = ":" /\ \A j \in 1..(i - 1) : line[j] # ":"
         IN  [ name  |-> SubSeq(line, 1, colon - 1),
               value |-> SubSeq(line, SkipBlanks(line, colon + 1), Len(line)) ]

\* Steps 8-9 of x402_create_solana_payment and steps 5-6 of x402_fetch:
\* the transaction as Base64, the payload, its encoding, and the header
\* the retry carries
EncodePayment(req, signed_tx) ==
    LET b64     == x402_base64_encode(signed_tx, TX_B64_SIZE)
        payload == PaymentPayload(req, b64.text)
        encoded == x402_encode_payment_payload(payload, PAYMENT_ENCODED_SIZE)
    IN  [ b64_err |-> b64.err, payload |-> payload, encoded_err |-> encoded.err,
          header |-> ParseHeaderLine(RetryHeaders(encoded.text)) ]

-----------------------------------------------------------------------------
(* HTTP responses of the resource server *)

EmptySettlement == [transaction |-> <<>>, success |-> FALSE, network |-> <<>>]

\* The X-PAYMENT-RESPONSE header of a response: present with a non-empty
\* value or not, whether the value is Base64, whether the decoded text is
\* JSON, and the members of that JSON the parser reads.
NoPaymentResponse ==
    [ present |-> FALSE, base64_ok |-> FALSE, json_ok |-> FALSE,
      transaction |-> Missing, success_is_bool |-> FALSE, success |-> FALSE,
      network |-> Missing ]

PaymentResponse(base64_ok, json_ok, transaction, success_is_bool, success, network) ==
    [ present |-> TRUE, base64_ok |-> base64_ok, json_ok |-> json_ok,
      transaction |-> transaction, success_is_bool |-> success_is_bool,
      success |-> success, network |-> network ]

SETTLEMENT_TRANSACTION_SIZE == 128

\* a decoder that never fills in the network
x402_decode_settlement_response_NoNetwork(header) ==
    IF ~header.base64_ok \/ ~header.json_ok
    THEN [err |-> "ESP_FAIL", settlement |-> EmptySettlement]
    ELSE [ err |-> "ESP_OK",
           settlement |->
             [ transaction |-> IF header.transaction.is_string
                               THEN StrNCpy(header.transaction.val,
                                            SETTLEMENT_TRANSACTION_SIZE)
                               ELSE <<>>,
               success     |-> header.success_is_bool /\ header.success,
               network     |-> <<>> ] ]

\* x402_decode_settlement_response: [err, settlement]
x402_decode_settlement_response(header) ==
    IF ~header.base64_ok THEN [err |-> "ESP_FAIL", settlement |-> EmptySettlement]
    ELSE IF ~header.json_ok THEN [err |-> "ESP_FAIL", settlement |-> EmptySettlement]
    ELSE [ err |-> "ESP_OK",
           settlement |->
             [ transaction |-> IF header.transaction.is_string
                               THEN StrNCpy(header.transaction.val,
                                            SETTLEMENT_TRANSACTION_SIZE)
                               ELSE <<>>,
               success     |-> header.success_is_bool /\ header.success,
               network     |-> IF header.network.is_string
                               THEN StrNCpy(header.network.val, ADDRESS_FIELD_SIZE)
                               ELSE <<>> ] ]

\* resp_headers: the 1024-byte blob http_request builds (NULL when malloc
\* fails) and the X-PAYMENT-RESPONSE line in it
Headers(allocated, payment_response) ==
    [allocated |-> allocated, payment_response |-> payment_response]

\* x402_extract_header(resp_headers, "X-PAYMENT-RESPONSE", ...)
x402_extract_header(headers) ==
    headers.allocated /\ headers.payment_response.present

\* A response body: NULL (no data event), or text; doc is what cJSON makes
\* of the text when it is read as a 402 challenge
NotJson == [parses |-> FALSE, accepts_is_array |-> FALSE, accepts |-> <<>>]

JsonDoc(accepts_is_array, accepts) ==
    [parses |-> TRUE, accepts_is_array |-> accepts_is_array, accepts |-> accepts]

Body(is_null, text, doc) == [is_null |-> is_null, text |-> text, doc |-> doc]

NullBody == Body(TRUE, "", NotJson)

HttpResponse(err, status_code, headers, body) ==
    [err |-> err, status_code |-> status_code, headers |-> headers, body |-> body]

\* x402_response_t
EmptyResponse ==
    [ status_code |-> 0, headers |-> Headers(FALSE, NoPaymentResponse),
      body |-> NullBody, payment_made |-> FALSE, settlement |-> EmptySettlement ]

-----------------------------------------------------------------------------
(* What the servers may answer *)

SOLANA_MAINNET == <<"s", "o", "l", "a", "n", "a">>

\* characters a maxAmountRequired string is made of
AmountChars == {"0", "1", "+", "-", " ", "x"}

U64_MAX_TEXT ==
    <<"1", "8", "4", "4", "6", "7", "4", "4", "0", "7",
      "3", "7", "0", "9", "5", "5", "1", "6", "1", "5">>

U64_OVERFLOW_TEXT ==
    <<"1", "8", "4", "4", "6", "7", "4", "4", "0", "7",
      "3", "7", "0", "9", "5", "5", "1", "6", "1", "6">>

\* a scheme name other than "exact"
SCHEME_UPTO == <<"u", "p", "t", "o">>

AmountStrings ==
    {<<>>, <<"1", "0", "0">>, U64_MAX_TEXT, U64_OVERFLOW_TEXT}
    \cup UNION { [1..k -> AmountChars] : k \in 1..MaxAmountLen }

ExtraValues ==
    { Extra(FALSE, Missing), Extra(TRUE, Missing), Extra(TRUE, Field(<<>>)),
      Extra(TRUE, Field(FEE_PAYER_TEXT)), Extra(TRUE, Field(KEY_TEXTS[1])) }

\* the amount and the fee payer vary freely around a well-formed option, and
\* the other members vary around a well-formed amount
PaymentOptions ==
    { PaymentOption(Field(KEY_TEXTS[2]), Field(X402_NETWORK_SOLANA_DEVNET),
                    Field(MINT_TEXT), a, e) :
        a \in {Missing} \cup { Field(s) : s \in AmountStrings },
        e \in {Extra(FALSE, Missing), Extra(TRUE, Field(FEE_PAYER_TEXT))} }
    \cup
    { PaymentOption(p, n, s, Field(<<"1", "0", "0">>), e) :
        p \in {Missing, Field(BAD_BASE58_TEXT), Field(SHORT_BASE58_TEXT)}
              \cup { Field(t) : t \in KeyTexts },
        n \in {Missing, Field(SOLANA_MAINNET)},
        s \in {Missing, Field(MINT_TEXT), Field(SHORT_BASE58_TEXT)},
        e \in ExtraValues }
    \cup
    { WithScheme(PaymentOption(Field(KEY_TEXTS[2]), Field(SOLANA_MAINNET),
                               Field(MINT_TEXT), Field(<<"1", "0", "0">>),
                               Extra(TRUE, Field(FEE_PAYER_TEXT))), s) :
        s \in {Missing, Field(SCHEME_UPTO)} }

ChallengeBodies ==
    { NullBody, Body(FALSE, "garbage", NotJson),
      Body(FALSE, "challenge", JsonDoc(FALSE, <<>>)),
      Body(FALSE, "challenge", JsonDoc(TRUE, <<>>)) }
    \cup { Body(FALSE, "challenge", JsonDoc(TRUE, <<o>>)) : o \in PaymentOptions }

PlainHeaders == Headers(TRUE, NoPaymentResponse)

NoHeaders == Headers(FALSE, NoPaymentResponse)

ResourceBody == Body(FALSE, "resource", NotJson)

TransportFailure == HttpResponse(ESP_ERR_HTTP_CONNECT, 0, NoHeaders, NullBody)

InitialResponses ==
    {TransportFailure}
    \cup { HttpResponse("ESP_OK", s, h, b) :
             s \in {200, 404, 500}, h \in {PlainHeaders, NoHeaders},
             b \in {NullBody, ResourceBody,
                    Body(FALSE, "challenge", JsonDoc(TRUE, <<>>))} }
    \cup { HttpResponse("ESP_OK", 402, PlainHeaders, b) : b \in ChallengeBodies }

RpcFailures ==
    { RpcReply(ESP_ERR_HTTP_CONNECT, 0, TRUE, FALSE, Missing),
      RpcReply("ESP_OK", 500, FALSE, TRUE, Missing),
      RpcReply("ESP_OK", 200, TRUE, FALSE, Missing),
      RpcReply("ESP_OK", 200, FALSE, FALSE, Missing),
      RpcReply("ESP_OK", 200, FALSE, TRUE, Missing) }

MintProbeReplies ==
    RpcFailures
    \cup { RpcReply("ESP_OK", 200, FALSE, TRUE, Field(o)) : o \in OwnerTexts }

BlockhashReplies ==
    RpcFailures
    \cup { RpcReply("ESP_OK", 200, FALSE, TRUE, Field(t)) :
             t \in BlockhashTexts }

RECEIPT_TRANSACTION == <<"3", "x", "K", "9">>

PaymentResponses ==
    { NoPaymentResponse,
      PaymentResponse(FALSE, FALSE, Missing, FALSE, FALSE, Missing),
      PaymentResponse(TRUE, FALSE, Missing, FALSE, FALSE, Missing),
      PaymentResponse(TRUE, TRUE, Missing, FALSE, FALSE, Missing) }
    \cup { PaymentResponse(TRUE, TRUE, Field(RECEIPT_TRANSACTION), TRUE, s,
                           Field(X402_NETWORK_SOLANA_DEVNET)) : s \in BOOLEAN }

RetryResponses ==
    {TransportFailure}
    \cup { HttpResponse("ESP_OK", s, NoHeaders, ResourceBody) : s \in {200, 204, 402} }
    \cup { HttpResponse("ESP_OK", s, Headers(TRUE, p), b) :
             s \in {200, 402, 500}, p \in PaymentResponses,
             b \in {NullBody, ResourceBody} }

-----------------------------------------------------------------------------
(* Specification Spec: calls of x402_fetch *)

DeviceWallet == solana_wallet_from_keypair(WALLET_SECRET_KEY)

wallet_vars == <<wallet, wallet_log>>

\* no wallet yet: solana_wallet_from_keypair has not returned one
NoWallet ==
    [ state |-> "none", supplied |-> <<>>,
      keys |-> [secret_key |-> <<>>, public_key |-> <<>>] ]

\* the wallet solana_wallet_from_keypair returns for a blob; supplied keeps
\* the blob as the caller passed it
LiveWallet(blob) ==
    [state |-> "live", supplied |-> blob, keys |-> solana_wallet_from_keypair(blob)]

\* the wallet x402_fetch is called with
WalletReady ==
    /\ wallet = LiveWallet(WALLET_SECRET_KEY)
    /\ wallet_log = <<>>

\* nothing encoded or decoded
NoCodec ==
    [ key |-> <<>>, stage |-> "none",
      encoded |-> [ok |-> FALSE, out |-> <<>>],
      decoded |-> [ok |-> FALSE, out |-> <<>>] ]

\* static solana_rpc_handle_t g_rpc_client = NULL
NoRpcClient == [created |-> FALSE, request_id |-> 0]

NoCall ==
    [ args_ok |-> FALSE, http_client_ok |-> FALSE, heap |-> {},
      g_rpc_client |-> NoRpcClient ]

\* what the paid retry carries: the payload, the signed transaction it
\* was made from (tx_data) and the X-PAYMENT header handed to the client
NoXPayment ==
    [ sent |-> FALSE, payload |-> NoPayload, tx_data |-> <<>>,
      header |-> [name |-> <<>>, value |-> <<>>] ]

\* solana_rpc_init: request_id = 1
solana_rpc_init == [created |-> TRUE, request_id |-> 1]

\* the heap objects an x402_response_t owns: headers and body
OwnedBy(response) ==
    (IF response.headers.allocated THEN {"resp_headers"} ELSE {})
        \cup (IF response.body.is_null THEN {} ELSE {"resp_body"})

\* x402_response_free: free(response->headers), free(response->body)
x402_response_free(h) == h \ {"resp_headers", "resp_body"}

\* a release of the payload that leaves the Base64 transaction string
x402_payment_free_Nothing(h) == h

\* x402_payment_free: free(payload->payload.transaction)
x402_payment_free(h) == h \ {"tx_b64"}

\* solana_rpc_free_response: free(response->data)
solana_rpc_free_response(h) == h \ {"rpc_response"}

\* what http_request leaves on the heap when it has the response: the
\* client is cleaned up, the caller's header blob is its caller's to
\* release, headers and body are handed out
HttpReceived(h, resp) ==
    IF resp.err # "ESP_OK" THEN h \ {"http_client"}
    ELSE (h \ {"http_client"}) \cup OwnedBy(resp)

-----------------------------------------------------------------------------
(* solana_tx: the builder of System Program transfers *)

SOLANA_PUBKEY_SIZE == 32

SOLANA_SIGNATURE_SIZE == 64

SOLANA_BLOCKHASH_SIZE == 32

SYSTEM_TRANSFER_INSTRUCTION == 2

MAX_ACCOUNTS == 10

MAX_INSTRUCTIONS == 5

\* uint8_t message[1024] of the caller that signs
MESSAGE_BUFFER_SIZE == 1024

\* uint8_t serialized_tx[2048] of the caller that serializes
SERIALIZED_TX_SIZE == 2048

\* System Program ID: 11111111111111111111111111111111
SYSTEM_PROGRAM_ID == Zeros(SOLANA_PUBKEY_SIZE)

\* solana_tx_add_transfer calls on one transaction
MaxTransfers == 2

\* encode_compact_u16: the bytes written for a uint16_t
encode_compact_u16(value) ==
    IF value <= 127 THEN <<value % 256>>
    ELSE IF value <= 16383 THEN <<(value % 128) + 128, (value \div 128) % 256>>
    ELSE <<(value % 128) + 128, ((value \div 128) % 128) + 128, (value \div 16384) % 256>>

\* account_meta_t
AccountMeta(pubkey, is_signer, is_writable) ==
    [pubkey |-> pubkey, is_signer |-> is_signer, is_writable |-> is_writable]

\* calloc(1, sizeof(solana_tx_t))
ZeroedTx ==
    [ blockhash |-> Zeros(SOLANA_BLOCKHASH_SIZE), fee_payer |-> Zeros(SOLANA_PUBKEY_SIZE),
      accounts |-> <<>>, instructions |-> <<>>,
      signatures |-> Zeros(SOLANA_SIGNATURE_SIZE), has_signature |-> FALSE ]

\* find_or_add_account: [tx, idx]; an account that is in the table keeps
\* its place and gains the flags, a new one goes to the end
find_or_add_account(tx, pubkey, is_signer, is_writable) ==
    LET hits == { i \in 1..Len(tx.accounts) : tx.accounts[i].pubkey = pubkey }
    IN  IF hits # {}
        THEN LET i == CHOOSE h \in hits : \A g \in hits : h <= g
             IN  [ tx  |-> [tx EXCEPT !.accounts[i].is_signer = @ \/ is_signer,
                                      !.accounts[i].is_writable = @ \/ is_writable],
                   idx |-> i - 1 ]
        ELSE IF Len(tx.accounts) >= MAX_ACCOUNTS THEN [tx |-> tx, idx |-> -1]
        ELSE [ tx  |-> [tx EXCEPT !.accounts =
                           Append(@, AccountMeta(pubkey, is_signer, is_writable))],
               idx |-> Len(tx.accounts) ]

\* solana_tx_new: [ok, tx]; NULL when calloc fails or the blockhash does not
\* decode to 32 bytes
solana_tx_new(recent_blockhash, payer, calloc_ok) ==
    LET decoded == DecodeKey(recent_blockhash)
    IN  IF ~calloc_ok \/ ~decoded.ok \/ Len(decoded.out) # SOLANA_BLOCKHASH_SIZE
        THEN [ok |-> FALSE, tx |-> ZeroedTx]
        ELSE [ ok |-> TRUE,
               tx |-> find_or_add_account(
                          [ZeroedTx EXCEPT !.blockhash = decoded.out, !.fee_payer = payer],
                          payer, TRUE, TRUE).tx ]

\* solana_tx_add_transfer: [err, tx]; the accounts it added stay in the
\* table when it fails after adding them
solana_tx_add_transfer(tx, from, to, lamports, malloc_ok) ==
    IF Len(tx.instructions) >= MAX_INSTRUCTIONS THEN [err |-> "ESP_ERR_NO_MEM", tx |-> tx]
    ELSE
    LET a_from == find_or_add_account(tx, from, TRUE, TRUE)
        a_to   == find_or_add_account(a_from.tx, to, FALSE, TRUE)
        a_prog == find_or_add_account(a_to.tx, SYSTEM_PROGRAM_ID, FALSE, FALSE)
        instr  == [ program_id |-> SYSTEM_PROGRAM_ID,
                    account_indexes |-> <<a_from.idx, a_to.idx>>,
                    data |-> <<SYSTEM_TRANSFER_INSTRUCTION, 0, 0, 0>> \o AmountBytes(lamports) ]
    IN  IF a_from.idx < 0 \/ a_to.idx < 0 THEN [err |-> "ESP_ERR_NO_MEM", tx |-> a_to.tx]
        ELSE IF a_prog.idx < 0 THEN [err |-> "ESP_ERR_NO_MEM", tx |-> a_prog.tx]
        ELSE IF ~malloc_ok THEN [err |-> "ESP_ERR_NO_MEM", tx |-> a_prog.tx]
        ELSE [ err |-> "ESP_OK",
               tx  |-> [a_prog.tx EXCEPT !.instructions = Append(@, instr)] ]

\* remaining < n on size_t: a remaining that went below zero has wrapped
\* to a value greater than every n
RemainingBelow(remaining, n) == remaining >= 0 /\ remaining < n

\* the three counts of the message header
NumRequiredSigs(accounts) ==
    Cardinality({ i \in 1..Len(accounts) : accounts[i].is_signer })

NumReadonlySigned(accounts) ==
    Cardinality({ i \in 1..Len(accounts) :
                    accounts[i].is_signer /\ ~accounts[i].is_writable })

NumReadonlyUnsigned(accounts) ==
    Cardinality({ i \in 1..Len(accounts) :
                    ~accounts[i].is_signer /\ ~accounts[i].is_writable })

\* the loop over the accounts: [err, out, remaining]
RECURSIVE WriteAccounts(_, _, _, _)
WriteAccounts(accounts, i, out, remaining) ==
    IF i > Len(accounts) THEN [err |-> "ESP_OK", out |-> out, remaining |-> remaining]
    ELSE IF RemainingBelow(remaining, SOLANA_PUBKEY_SIZE)
    THEN [err |-> "ESP_ERR_NO_MEM", out |-> out, remaining |-> remaining]
    ELSE WriteAccounts(accounts, i + 1, out \o accounts[i].pubkey,
                       remaining - SOLANA_PUBKEY_SIZE)

\* the loop over the instructions: [err, out, remaining]
RECURSIVE WriteInstructions(_, _, _, _)
WriteInstructions(tx, i, out, remaining) ==
    IF i > Len(tx.instructions) THEN [err |-> "ESP_OK", out |-> out, remaining |-> remaining]
    ELSE
    LET instr == tx.instructions[i]
        found == { j \in 1..Len(tx.accounts) : tx.accounts[j].pubkey = instr.program_id }
        prog_idx == IF found = {} THEN -1
                    ELSE (CHOOSE j \in found : \A k \in found : j <= k) - 1
        n_acc == encode_compact_u16(Len(instr.account_indexes))
        n_dat == encode_compact_u16(Len(instr.data))
        r1 == remaining - 1
        r2 == r1 - Len(n_acc)
        r3 == r2 - Len(instr.account_indexes)
        r4 == r3 - Len(n_dat)
        o1 == out \o <<prog_idx>>
        o2 == o1 \o n_acc
        o3 == o2 \o instr.account_indexes
        o4 == o3 \o n_dat
    IN  IF prog_idx < 0
        THEN [err |-> "ESP_ERR_INVALID_STATE", out |-> out, remaining |-> remaining]
        ELSE IF RemainingBelow(remaining, 1)
        THEN [err |-> "ESP_ERR_NO_MEM", out |-> out, remaining |-> remaining]
        ELSE IF RemainingBelow(r2, Len(instr.account_indexes))
        THEN [err |-> "ESP_ERR_NO_MEM", out |-> o2, remaining |-> r2]
        ELSE IF RemainingBelow(r4, Len(instr.data))
        THEN [err |-> "ESP_ERR_NO_MEM", out |-> o4, remaining |-> r4]
        ELSE WriteInstructions(tx, i + 1, o4 \o instr.data, r4 - Len(instr.data))

\* solana_tx_get_message: [err, message]; message holds what was written,
\* which on ESP_OK is the whole message
solana_tx_get_message(tx, max_len) ==
    IF RemainingBelow(max_len, 3) THEN [err |-> "ESP_ERR_NO_MEM", message |-> <<>>]
    ELSE
    LET header == << NumRequiredSigs(tx.accounts), NumReadonlySigned(tx.accounts),
                     NumReadonlyUnsigned(tx.accounts) >>
        n_acc  == encode_compact_u16(Len(tx.accounts))
        keys   == WriteAccounts(tx.accounts, 1, header \o n_acc, max_len - 3 - Len(n_acc))
        n_ins  == encode_compact_u16(Len(tx.instructions))
        ins    == WriteInstructions(tx, 1, keys.out \o tx.blockhash \o n_ins,
                                    keys.remaining - SOLANA_BLOCKHASH_SIZE - Len(n_ins))
    IN  IF keys.err # "ESP_OK" THEN [err |-> keys.err, message |-> keys.out]
        ELSE IF RemainingBelow(keys.remaining, SOLANA_BLOCKHASH_SIZE)
        THEN [err |-> "ESP_ERR_NO_MEM", message |-> keys.out]
        ELSE [err |-> ins.err, message |-> ins.out]

\* solana_tx_add_signature
solana_tx_add_signature(tx, signature) ==
    [tx EXCEPT !.signatures = signature, !.has_signature = TRUE]

\* solana_tx_serialize: [err, output]; output holds what was written
solana_tx_serialize(tx, max_len) ==
    IF ~tx.has_signature THEN [err |-> "ESP_ERR_INVALID_STATE", output |-> <<>>]
    ELSE
    LET count == encode_compact_u16(1)
        remaining == max_len - Len(count)
        m == solana_tx_get_message(tx, remaining - SOLANA_SIGNATURE_SIZE)
    IN  IF RemainingBelow(remaining, SOLANA_SIGNATURE_SIZE)
        THEN [err |-> "ESP_ERR_NO_MEM", output |-> count]
        ELSE [err |-> m.err, output |-> count \o tx.signatures \o m.message]

\* no transaction made
NoTransaction ==
    [ stage |-> "none", tx |-> ZeroedTx, transfers |-> 0, signed_message |-> <<>>,
      last |-> "none", err |-> "none", output |-> <<>> ]

-----------------------------------------------------------------------------
(* The parts at rest *)

\* nothing parsed
NoParse == [stage |-> "none"]


\* the WiFi manager before wifi_manager_init: its statics, the bits of
\* s_wifi_event_group, where its caller stands, and what has happened since
\* the last wifi_manager_connect began and since wifi_manager_disconnect
WifiOff ==
    [ s_initialized |-> FALSE, started |-> FALSE, s_connected |-> FALSE,
      s_retry_count |-> 0, bits |-> {}, at |-> "out", timeout_ms |-> 0, connect_ret |-> "none", connects |-> 0,
      got_ip_in_call |-> FALSE, exhausted_in_call |-> FALSE,
      disconnected |-> FALSE, reconnects |-> FALSE ]

\* no HTTP request under way: http_buffer_t's data (allocated or NULL), len
\* and capacity, and beside them the bytes the events have carried, the
\* number of events, whether every write stayed inside the allocation, and
\* the blocks the handler lost hold of
NoResponseData ==
    [ stage |-> "none", data |-> FALSE, len |-> 0, capacity |-> 0,
      received |-> 0, events |-> 0, inside |-> TRUE, leaked |-> 0 ]

\* no receipt header taken: the value's length, padding and whether all its
\* characters are of the alphabet, what the decoder answered, the length
\* mbedtls reported, whether and where decoded[decoded_len] = 0 was
\* written, and what the function returned
NoDecode ==
    [ stage |-> "none", value_len |-> 0, pad |-> 0, valid |-> TRUE,
      err |-> "none", decoded_len |-> 0, terminated |-> FALSE, nul_at |-> 0,
      ret |-> "none" ]

PartsIdle ==
    /\ parse_io = NoParse
    /\ solana_tx = NoTransaction
    /\ wifi = WifiOff
    /\ response_data = NoResponseData
    /\ settlement_io = NoDecode

FetchIdle ==
    /\ pc = "idle"
    /\ calls = 0
    /\ call = NoCall
    /\ exchanges = <<>>
    /\ replies = <<>>
    /\ sign_count = 0
    /\ ret = "none"
    /\ response_out = EmptyResponse
    /\ requirements = EmptyRequirements
    /\ payment = NoPayment
    /\ g_rpc_client = NoRpcClient
    /\ heap = {}
    /\ step_log = <<>>
    /\ x_payment = NoXPayment

fetch_vars ==
    <<pc, calls, call, exchanges, replies, sign_count, ret, response_out, requirements,
      payment, g_rpc_client, heap, step_log, x_payment>>

NoTxInput ==
    [ has_null |-> TRUE, fee_payer |-> <<>>, from_wallet |-> <<>>,
      to_wallet |-> <<>>, mint |-> <<>>, token_program_id |-> <<>>,
      amount |-> U64_ZERO, recent_blockhash |-> <<>>, max_tx_len |-> 0 ]

NoTxResult == [called |-> FALSE, err |-> "", tx |-> <<>>, tx_len |-> -1]

Init ==
    /\ on_curve_oracle \in CurveOracles
    /\ PartsIdle
    /\ tx_in = NoTxInput
    /\ tx_res = NoTxResult
    /\ FetchIdle
    /\ WalletReady
    /\ codec = NoCodec

\* the requests x402_fetch sends: one http_request call each
UnpaidRequests == <<"unpaid">>

\* a driver that sends the paid request twice
PaidRetryRequests_Twice == <<"paid", "paid">>

PaidRetryRequests == <<"paid">>

\* x402_fetch up to the first http_request: the caller passes valid
\* pointers or not, and esp_http_client_init yields a handle or not.  A
\* caller that passes a response record again has released what the record
\* held (x402_response_free); call.heap is the heap the call starts from
\* and call.g_rpc_client the module-level client it finds.
FetchCall ==
    /\ pc \in {"idle", "returned"}
    /\ calls < MaxCalls
    /\ \E args_ok \in BOOLEAN, http_client_ok \in BOOLEAN :
         /\ call' = [ args_ok |-> args_ok, http_client_ok |-> http_client_ok,
                      heap |-> IF args_ok THEN x402_response_free(heap) ELSE heap,
                      g_rpc_client |-> g_rpc_client ]
         /\ heap' = IF ~args_ok THEN heap
                    ELSE IF ~http_client_ok THEN x402_response_free(heap)
                    ELSE x402_response_free(heap) \cup {"http_client"}
         /\ response_out' = IF args_ok THEN EmptyResponse ELSE response_out
         /\ IF ~args_ok
            THEN pc' = "returned" /\ ret' = "ESP_ERR_INVALID_ARG" /\ exchanges' = <<>>
            ELSE IF ~http_client_ok
            THEN pc' = "returned" /\ ret' = "ESP_FAIL" /\ exchanges' = <<>>
            ELSE pc' = "await_initial" /\ ret' = "pending"
                 /\ exchanges' = UnpaidRequests
    /\ calls' = calls + 1
    /\ step_log' = [i \in 1..Len(exchanges') |-> "unpaid_request"]
    /\ replies' = <<>>
    /\ sign_count' = 0
    /\ requirements' = EmptyRequirements
    /\ payment' = NoPayment
    /\ x_payment' = NoXPayment
    /\ UNCHANGED <<parse_io, solana_tx, wifi, response_data, settlement_io, codec, wallet, wallet_log, on_curve_oracle, tx_in, tx_res, g_rpc_client>>

\* a step's outcome: where the call stands, what it returned, and the
\* exchanges it issued
\* a driver that starts over with the unpaid request where it should return
Return_StartOver(e) == [pc |-> "await_initial", ret |-> "pending", issued |-> <<>>]

Return(e) == [pc |-> "returned", ret |-> e, issued |-> <<>>]

Await(where, issued) == [pc |-> where, ret |-> "pending", issued |-> issued]

\* a pass-through that reports a payment
PassThrough_MarksPaid(zeroed, resp) ==
    [ zeroed EXCEPT !.status_code = resp.status_code,
                    !.headers = resp.headers,
                    !.body = resp.body,
                    !.payment_made = TRUE ]

\* What x402_fetch hands back when the initial response is not a 402: the
\* response as received, in the record it zeroed on entry
PassThrough(zeroed, resp) ==
    [ zeroed EXCEPT !.status_code = resp.status_code,
                    !.headers = resp.headers,
                    !.body = resp.body,
                    !.payment_made = FALSE ]

\* From the initial response to the mint-program probe.  res names the
\* resource that is not granted on the way ("ok": all are).
OnInitialResponse(resp, res) ==
    LET filled == PassThrough(response_out, resp)
        parsed == x402_parse_payment_requirements(resp.body.doc)
        prep   == PreparePayment(parsed.requirements)
        received == HttpReceived(heap, resp)
        \* free(resp_headers); free(resp_body) once the challenge is read
        released == received \ {"resp_headers", "resp_body"}
        Out(o, resp_out, req, pay, h) ==
            [ o |-> o, response_out |-> resp_out, requirements |-> req,
              payment |-> pay, heap |-> h ]
    IN
    IF resp.err # "ESP_OK"
    THEN Out(Return(resp.err), response_out, requirements, payment, received)
    ELSE IF resp.status_code # 402
    THEN Out(Return("ESP_OK"), filled, requirements, payment, received)
    ELSE IF resp.body.is_null
    THEN Out(Return("ESP_FAIL"), response_out, requirements, payment,
             received \ {"resp_headers"})
    ELSE IF parsed.err # "ESP_OK"
    THEN Out(Return(parsed.err), response_out, parsed.requirements, payment, released)
    ELSE IF prep.err # "ESP_OK"
    THEN Out(Return(prep.err), response_out, parsed.requirements, payment, released)
    ELSE IF res = "request_body"
    THEN Out(Return("ESP_ERR_NO_MEM"), response_out, parsed.requirements, prep.payment,
             released)
    ELSE IF res = "http_client"
    THEN Out(Return("ESP_FAIL"), response_out, parsed.requirements, prep.payment,
             (released \cup {"request_body"}) \ {"request_body"})
    ELSE Out(Await("await_mint_probe", <<"mint_probe">>), response_out,
             parsed.requirements, prep.payment,
             released \cup {"request_body", "http_client"})

InitialResponse ==
    /\ pc = "await_initial"
    /\ \E resp \in InitialResponses :
         /\ replies' = Append(replies, resp)
         /\ \E res \in {"ok", "request_body", "http_client"} :
              \E out \in {OnInitialResponse(resp, res)} :
             /\ pc' = out.o.pc
             /\ ret' = out.o.ret
             /\ exchanges' = exchanges \o out.o.issued
             /\ response_out' = out.response_out
             /\ requirements' = out.requirements
             /\ payment' = out.payment
             /\ heap' = out.heap
             /\ step_log' = step_log
                    \o (IF resp.err = "ESP_OK" /\ resp.status_code = 402
                           /\ ~resp.body.is_null
                        THEN <<"challenge_parse">> ELSE <<>>)
                    \o [i \in 1..Len(out.o.issued) |-> "mint_probe"]
    /\ UNCHANGED <<parse_io, solana_tx, wifi, response_data, settlement_io, codec, wallet, wallet_log, on_curve_oracle, tx_in, tx_res, calls, call, sign_count,
                   g_rpc_client, x_payment>>

\* a client made anew by every call that needs one
EnsureRpcClient_PerCall(client, res) ==
    IF res = "rpc_client" THEN NoRpcClient ELSE solana_rpc_init

\* ensure_rpc_client, then the increment solana_rpc_call applies to
\* request_id before anything can fail in it
EnsureRpcClient(client, res) ==
    IF client.created THEN client
    ELSE IF res = "rpc_client" THEN client
    ELSE solana_rpc_init

\* a driver that carries on with the classic Token program when the probe fails
OnMintProbeReply_DefaultProgram(reply, res) ==
    LET m == spl_token_get_mint_program(reply)
        client == EnsureRpcClient(g_rpc_client, res)
        called == [client EXCEPT !.request_id = @ + 1]
        probed == heap \ {"request_body", "http_client"}
        ensured == IF client.created THEN probed \cup {"rpc_client"} ELSE probed
        Out(o, p, c, h) == [o |-> o, payment |-> p, g_rpc_client |-> c, heap |-> h]
        pay == [payment EXCEPT !.token_program_id =
                   IF m.err = "ESP_OK" THEN m.program_id ELSE SPL_TOKEN_PROGRAM_ID]
    IN
    IF ~client.created THEN Out(Return("ESP_FAIL"), pay, client, ensured)
    ELSE IF res \in {"request_body", "response_buffer", "http_client"}
    THEN Out(Return("ESP_FAIL"), pay, called, ensured)
    ELSE Out(Await("await_blockhash", <<"blockhash">>), pay, called,
             ensured \cup {"request_body", "rpc_response", "http_client"})

\* From the mint probe's reply to the blockhash request
OnMintProbeReply(reply, res) ==
    LET m == spl_token_get_mint_program(reply)
        client == EnsureRpcClient(g_rpc_client, res)
        called == [client EXCEPT !.request_id = @ + 1]
        \* spl_token_get_mint_program releases its request, client and
        \* response on every path
        probed == heap \ {"request_body", "http_client"}
        \* ensure_rpc_client: the client, once made, stays in g_rpc_client
        ensured == IF client.created THEN probed \cup {"rpc_client"} ELSE probed
        Out(o, p, c, h) == [o |-> o, payment |-> p, g_rpc_client |-> c, heap |-> h]
        pay == [payment EXCEPT !.token_program_id = m.program_id]
    IN
    IF m.err # "ESP_OK" THEN Out(Return(m.err), payment, g_rpc_client, probed)
    ELSE IF ~client.created THEN Out(Return("ESP_FAIL"), pay, client, ensured)
    ELSE IF res \in {"request_body", "response_buffer", "http_client"}
    THEN Out(Return("ESP_FAIL"), pay, called, ensured)
    ELSE Out(Await("await_blockhash", <<"blockhash">>), pay, called,
             ensured \cup {"request_body", "rpc_response", "http_client"})

MintProbeResponse ==
    /\ pc = "await_mint_probe"
    /\ \E reply \in MintProbeReplies :
         /\ replies' = Append(replies, reply)
         /\ \E res \in {"ok", "rpc_client", "request_body", "response_buffer",
                         "http_client"} :
              \E out \in {OnMintProbeReply(reply, res)} :
             /\ pc' = out.o.pc
             /\ ret' = out.o.ret
             /\ exchanges' = exchanges \o out.o.issued
             /\ payment' = out.payment
             /\ g_rpc_client' = out.g_rpc_client
             /\ heap' = out.heap
             /\ step_log' = step_log \o [i \in 1..Len(out.o.issued) |-> "blockhash_fetch"]
    /\ UNCHANGED <<parse_io, solana_tx, wifi, response_data, settlement_io, codec, wallet, wallet_log, on_curve_oracle, tx_in, tx_res, calls, call, sign_count,
                   response_out, requirements, x_payment>>

\* From the assembled transaction to the paid retry: sign, wrap, encode,
\* send.  built is the result of x402_build_payment_transaction and signed
\* the transaction with the wallet's signature in place.
OnTransactionBuilt(built, signed, wrapped, res) ==
    LET Out(o, n, x, h) == [o |-> o, signatures |-> n, x_payment |-> x, heap |-> h]
        \* x402_create_solana_payment has returned a payload, nothing is sent
        produced == [ sent |-> FALSE, payload |-> wrapped.payload,
                      tx_data |-> signed.tx, header |-> NoXPayment.header ]
        \* solana_rpc_call releases its request and client, and the build
        \* releases the RPC response on each of its paths
        fetched == solana_rpc_free_response(heap \ {"request_body", "http_client"})
        \* char *tx_b64 = malloc(4096), owned by the payload
        payload == fetched \cup {"tx_b64"}
        \* char *payment_encoded = malloc(8192); x402_payment_free(&payload)
        encoded == x402_payment_free(payload \cup {"payment_encoded"})
        \* char *retry_headers = malloc(16384); free(payment_encoded)
        blob == (encoded \cup {"retry_headers"}) \ {"payment_encoded"}
    IN
    IF built.err # "ESP_OK" THEN Out(Return(built.err), 0, x_payment, fetched)
    ELSE IF res = "signed_msg"
    THEN Out(Return(solana_wallet_sign(DeviceWallet, <<>>, FALSE).err), 0, x_payment,
             fetched)
    ELSE IF signed.err # "ESP_OK" THEN Out(Return(signed.err), 0, x_payment, fetched)
    ELSE IF res = "tx_b64" THEN Out(Return("ESP_ERR_NO_MEM"), 1, x_payment, fetched)
    ELSE IF wrapped.b64_err # "ESP_OK"
    THEN Out(Return(wrapped.b64_err), 1, x_payment, payload \ {"tx_b64"})
    ELSE IF res = "payment_encoded"
    THEN Out(Return("ESP_ERR_NO_MEM"), 1, produced, x402_payment_free(payload))
    ELSE IF wrapped.encoded_err # "ESP_OK"
    THEN Out(Return(wrapped.encoded_err), 1, produced, encoded \ {"payment_encoded"})
    ELSE IF res = "retry_headers"
    THEN Out(Return("ESP_ERR_NO_MEM"), 1, produced, encoded \ {"payment_encoded"})
    ELSE IF res = "http_client"
    THEN Out(Return("ESP_FAIL"), 1, produced, blob \ {"retry_headers"})
    ELSE Out(Await("await_retry", PaidRetryRequests), 1,
             [ sent |-> TRUE, payload |-> wrapped.payload, tx_data |-> signed.tx,
               header |-> wrapped.header ],
             blob \cup {"http_client"})

\* a payment that is signed before the transaction is built
PaymentSteps_SignFirst(built, signed, res) ==
    (IF built.err = "ESP_OK" THEN <<"sign">> ELSE <<>>)
        \o built.steps
        \o (IF built.err = "ESP_OK" /\ res # "signed_msg" /\ signed.err = "ESP_OK"
            THEN <<"encode">> ELSE <<>>)

\* what x402_create_solana_payment and x402_fetch start between the
\* blockhash reply and the retry: the builder's steps, Step 7 (sign) once
\* the transaction is built, and the Base64 and envelope encoding (Step 8,
\* x402_encode_payment_payload) once it is signed
PaymentSteps(built, signed, res) ==
    built.steps
        \o (IF built.err = "ESP_OK" THEN <<"sign">> ELSE <<>>)
        \o (IF built.err = "ESP_OK" /\ res # "signed_msg" /\ signed.err = "ESP_OK"
            THEN <<"encode">> ELSE <<>>)

BlockhashResponse ==
    /\ pc = "await_blockhash"
    /\ \E reply \in BlockhashReplies :
         /\ replies' = Append(replies, reply)
         /\ \E built \in {x402_build_payment_transaction(DeviceWallet, payment, reply,
                                                         on_curve_oracle)} :
            \E signed \in {SignTransaction(DeviceWallet, built.tx, TRUE)} :
            \E wrapped \in {EncodePayment(requirements, signed.tx)} :
              \E res \in {"ok", "signed_msg", "tx_b64", "payment_encoded",
                          "retry_headers", "http_client"} :
                \E out \in {OnTransactionBuilt(built, signed, wrapped, res)} :
                   /\ pc' = out.o.pc
                   /\ ret' = out.o.ret
                   /\ exchanges' = exchanges \o out.o.issued
                   /\ sign_count' = sign_count + out.signatures
                   /\ x_payment' = out.x_payment
                   /\ heap' = out.heap
                   /\ step_log' = step_log \o PaymentSteps(built, signed, res)
                                     \o [i \in 1..Len(out.o.issued) |-> "paid_retry"]
    /\ UNCHANGED <<parse_io, solana_tx, wifi, response_data, settlement_io, codec, wallet, wallet_log, on_curve_oracle, tx_in, tx_res, calls, call, response_out,
                   requirements, payment, g_rpc_client>>

\* The result x402_fetch returns once the paid retry has been answered
RetryResult(status_code) == "ESP_OK"

\* a driver that reports a payment whenever the retry is answered
OnRetryResponse_AlwaysPaid(resp) ==
    IF resp.err # "ESP_OK"
    THEN [ o |-> Return(resp.err), response_out |-> response_out,
           heap |-> HttpReceived(heap, resp) \ {"retry_headers"} ]
    ELSE [ o |-> Return(RetryResult(resp.status_code)),
           \* free(retry_headers); headers and body go to response_out
           heap |-> HttpReceived(heap, resp) \ {"retry_headers"},
           response_out |->
             [ status_code  |-> resp.status_code,
               headers      |-> resp.headers,
               body         |-> resp.body,
               payment_made |-> TRUE,
               settlement   |-> response_out.settlement ] ]

\* From the retry's response to the return
OnRetryResponse(resp) ==
    LET decoded == x402_decode_settlement_response(resp.headers.payment_response)
        settled == x402_extract_header(resp.headers) /\ decoded.err = "ESP_OK"
    IN
    IF resp.err # "ESP_OK"
    THEN [ o |-> Return(resp.err), response_out |-> response_out,
           heap |-> HttpReceived(heap, resp) \ {"retry_headers"} ]
    ELSE [ o |-> Return(RetryResult(resp.status_code)),
           \* free(retry_headers); headers and body go to response_out
           heap |-> HttpReceived(heap, resp) \ {"retry_headers"},
           response_out |->
             [ status_code  |-> resp.status_code,
               headers      |-> resp.headers,
               body         |-> resp.body,
               payment_made |-> settled,
               settlement   |-> IF settled THEN decoded.settlement
                                ELSE response_out.settlement ] ]

RetryResponse ==
    /\ pc = "await_retry"
    /\ \E resp \in RetryResponses :
         /\ replies' = Append(replies, resp)
         /\ \E out \in {OnRetryResponse(resp)} :
             /\ pc' = out.o.pc
             /\ ret' = out.o.ret
             /\ exchanges' = exchanges \o out.o.issued
             /\ response_out' = out.response_out
             /\ heap' = out.heap
    /\ UNCHANGED <<parse_io, solana_tx, wifi, response_data, settlement_io, codec, wallet, wallet_log, on_curve_oracle, tx_in, tx_res, calls, call, sign_count,
                   requirements, payment, g_rpc_client, x_payment, step_log>>

Next ==
    \/ FetchCall
    \/ InitialResponse
    \/ MintProbeResponse
    \/ BlockhashResponse
    \/ RetryResponse

Spec == Init /\ [][Next]_vars

\* where a call waits for an exchange
AwaitPositions == {"await_initial", "await_mint_probe", "await_blockhash", "await_retry"}

\* the exchange a call waits for at position p returns, and the call goes
\* on from there: the steps of Next that leave p are the steps of the
\* response action of p
Replied(p) ==
    /\ pc = p
    /\ pc' \in (AwaitPositions \cup {"returned"}) \ {p}

\* Every exchange returns: esp_http_client_perform answers or gives up
\* after timeout_ms, and the code between two exchanges has no loop that
\* waits.  A caller need not call again, so FetchCall carries no fairness.
Fairness == \A p \in AwaitPositions : WF_pc(Replied(p))

SpecLive == Spec /\ Fairness

-----------------------------------------------------------------------------
(* Specification SpecTx: direct calls of the transaction builder *)

AmountValues ==
    { U64_ZERO, U64(1), U64(100), U64(65536 + 515),
      <<1800, 1286, 772, 258>>, U64_MAX }

\* capacities handed to the builder: the caller's, and smaller ones
MaxTxLens == { TX_DATA_SIZE, 0, 1, 129, 328, 340, 341 }

TxInputs ==
    [ has_null : BOOLEAN,
      fee_payer : Keys, from_wallet : Keys, to_wallet : Keys,
      mint : {USDC_DEVNET_MINT},
      token_program_id : {SPL_TOKEN_PROGRAM_ID, TOKEN_2022_PROGRAM_ID},
      amount : AmountValues,
      recent_blockhash : {Key(NumKeys + 1)},
      max_tx_len : MaxTxLens ]

InitTx ==
    /\ on_curve_oracle \in CurveOracles
    /\ PartsIdle
    /\ tx_in \in TxInputs
    /\ tx_res = NoTxResult
    /\ FetchIdle
    /\ WalletReady
    /\ codec = NoCodec

CreateTransferTransaction ==
    /\ ~tx_res.called
    /\ LET r == spl_token_create_transfer_transaction(
                    tx_in.has_null, tx_in.fee_payer, tx_in.from_wallet,
                    tx_in.to_wallet, tx_in.mint, tx_in.token_program_id,
                    tx_in.amount, tx_in.recent_blockhash, tx_in.max_tx_len,
                    on_curve_oracle)
       IN  tx_res' = [called |-> TRUE, err |-> r.err, tx |-> r.tx,
                      tx_len |-> r.tx_len]
    /\ UNCHANGED <<on_curve_oracle, tx_in>>
    /\ UNCHANGED fetch_vars
    /\ UNCHANGED part_vars
    /\ UNCHANGED wallet_vars
    /\ UNCHANGED codec

NextTx == CreateTransferTransaction

SpecTx == InitTx /\ [][NextTx]_vars

-----------------------------------------------------------------------------
(* Specification SpecWallet: the life of a wallet *)

MaxWalletOps == 3

\* 64-byte blobs handed to solana_wallet_from_keypair
SecretKeys ==
    { WALLET_SECRET_KEY,
      [i \in 1..32 |-> (i * 29 + 3) % 256] \o Key(2),
      Zeros(64) }

SignedMessages == { <<1, 2, 3>> }

\* sizes of the buffer handed to solana_wallet_get_address
AddressSizes == {64, 16}

InitWallet ==
    /\ on_curve_oracle \in CurveOracles
    /\ PartsIdle
    /\ tx_in = NoTxInput
    /\ tx_res = NoTxResult
    /\ FetchIdle
    /\ wallet = NoWallet
    /\ wallet_log = <<>>
    /\ codec = NoCodec

\* solana_wallet_from_keypair: NULL for a NULL argument or when calloc fails
WalletFromKeypair ==
    /\ wallet.state = "none"
    /\ \E blob \in SecretKeys, args_ok \in BOOLEAN, granted \in BOOLEAN :
         wallet' = IF args_ok /\ granted THEN LiveWallet(blob) ELSE wallet
    /\ UNCHANGED <<wallet_log, on_curve_oracle, tx_in, tx_res, codec>>
    /\ UNCHANGED fetch_vars
    /\ UNCHANGED part_vars

WalletGetAddress ==
    /\ wallet.state = "live"
    /\ Len(wallet_log) < MaxWalletOps
    /\ \E max_len \in AddressSizes :
         \E r \in {solana_wallet_get_address(wallet.keys, max_len)} :
             wallet_log' = Append(wallet_log,
                                  [op |-> "get_address", err |-> r.err, out |-> r.address])
    /\ UNCHANGED <<wallet, on_curve_oracle, tx_in, tx_res, codec>>
    /\ UNCHANGED fetch_vars
    /\ UNCHANGED part_vars

WalletGetPubkey ==
    /\ wallet.state = "live"
    /\ Len(wallet_log) < MaxWalletOps
    /\ wallet_log' = Append(wallet_log,
                            [ op |-> "get_pubkey", err |-> "ESP_OK",
                              out |-> solana_wallet_get_pubkey(wallet.keys) ])
    /\ UNCHANGED <<wallet, on_curve_oracle, tx_in, tx_res, codec>>
    /\ UNCHANGED fetch_vars
    /\ UNCHANGED part_vars

WalletSign ==
    /\ wallet.state = "live"
    /\ Len(wallet_log) < MaxWalletOps
    /\ \E message \in SignedMessages, malloc_ok \in BOOLEAN :
         \E r \in {solana_wallet_sign(wallet.keys, message, malloc_ok)} :
             wallet_log' = Append(wallet_log,
                                  [op |-> "sign", err |-> r.err, out |-> r.signature])
    /\ UNCHANGED <<wallet, on_curve_oracle, tx_in, tx_res, codec>>
    /\ UNCHANGED fetch_vars
    /\ UNCHANGED part_vars

WalletDestroy ==
    /\ wallet.state = "live"
    /\ wallet' = [wallet EXCEPT !.state = "destroyed",
                                !.keys = solana_wallet_destroy(wallet.keys)]
    /\ UNCHANGED <<wallet_log, on_curve_oracle, tx_in, tx_res, codec>>
    /\ UNCHANGED fetch_vars
    /\ UNCHANGED part_vars

NextWallet ==
    \/ WalletFromKeypair
    \/ WalletGetAddress
    \/ WalletGetPubkey
    \/ WalletSign
    \/ WalletDestroy

SpecWallet == InitWallet /\ [][NextWallet]_vars

-----------------------------------------------------------------------------
(* Specification SpecCodec: a key through base58_encode and base58_decode *)

\* char address[64], the buffer the callers encode a key into
ADDRESS_BUFFER_SIZE == 64

\* a key of z zero bytes followed by bytes that are not zero
ZeroLedKey(z) == [i \in 1..PUBKEY_LEN |-> IF i <= z THEN 0 ELSE ((i * 37 + z) % 255) + 1]

\* 32-byte keys: with 0 to 32 leading zero bytes, all 0xFF, the lowest
\* key that is not zero, and the keys of the other specifications
CodecKeys ==
    { ZeroLedKey(z) : z \in 0..PUBKEY_LEN }
        \cup { [i \in 1..PUBKEY_LEN |-> 255],
               [i \in 1..PUBKEY_LEN |-> IF i = PUBKEY_LEN THEN 1 ELSE 0],
               USDC_DEVNET_MINT, SPL_TOKEN_PROGRAM_ID }
        \cup Keys

InitCodec ==
    /\ on_curve_oracle \in CurveOracles
    /\ PartsIdle
    /\ tx_in = NoTxInput
    /\ tx_res = NoTxResult
    /\ FetchIdle
    /\ WalletReady
    /\ codec \in { [NoCodec EXCEPT !.key = k, !.stage = "key"] : k \in CodecKeys }

\* base58_encode(key, 32, address, sizeof(address))
Base58Encode ==
    /\ codec.stage = "key"
    /\ codec' = [codec EXCEPT !.stage = "encoded",
                              !.encoded = base58_encode(codec.key, ADDRESS_BUFFER_SIZE)]
    /\ UNCHANGED <<on_curve_oracle, tx_in, tx_res>>
    /\ UNCHANGED fetch_vars
    /\ UNCHANGED part_vars
    /\ UNCHANGED wallet_vars

\* base58_decode(address, decoded, &decoded_len, 32)
Base58Decode ==
    /\ codec.stage = "encoded"
    /\ codec.encoded.ok
    /\ codec' = [codec EXCEPT !.stage = "decoded",
                              !.decoded = base58_decode(codec.encoded.out, PUBKEY_LEN)]
    /\ UNCHANGED <<on_curve_oracle, tx_in, tx_res>>
    /\ UNCHANGED fetch_vars
    /\ UNCHANGED part_vars
    /\ UNCHANGED wallet_vars

NextCodec == Base58Encode \/ Base58Decode

SpecCodec == InitCodec /\ [][NextCodec]_vars

-----------------------------------------------------------------------------
(* x402_parse_payment_requirements on two bodies that share accepts[0] *)

\* elements of "accepts" after the first, at most
MaxLaterOptions == 2

\* what follows the first element: a complete option that names another
\* recipient, amount and fee payer, and an option without "payTo"
LaterOptions ==
    { PaymentOption(Field(KEY_TEXTS[1]), Field(SOLANA_MAINNET), Field(SHORT_BASE58_TEXT),
                    Field(<<"9">>), Extra(TRUE, Field(KEY_TEXTS[2]))),
      PaymentOption(Missing, Missing, Missing, Missing, Extra(FALSE, Missing)) }

LaterElements == UNION { [1..k -> LaterOptions] : k \in 0..MaxLaterOptions }

InitParse ==
    /\ on_curve_oracle \in {CHOOSE o \in CurveOracles : TRUE}
    /\ tx_in = NoTxInput
    /\ tx_res = NoTxResult
    /\ FetchIdle
    /\ WalletReady
    /\ codec = NoCodec
    /\ solana_tx = NoTransaction
    /\ wifi = WifiOff
    /\ response_data = NoResponseData
    /\ settlement_io = NoDecode
    /\ \E first \in PaymentOptions, later_a \in LaterElements, later_b \in LaterElements :
         parse_io = [ stage |-> "bodies",
                      a |-> JsonDoc(TRUE, <<first>> \o later_a),
                      b |-> JsonDoc(TRUE, <<first>> \o later_b) ]

\* x402_parse_payment_requirements(body_a, &ra) and (body_b, &rb)
ParseBoth ==
    /\ parse_io.stage = "bodies"
    /\ parse_io' = [ stage |-> "parsed", a |-> parse_io.a, b |-> parse_io.b,
                     result_a |-> x402_parse_payment_requirements(parse_io.a),
                     result_b |-> x402_parse_payment_requirements(parse_io.b) ]
    /\ UNCHANGED <<on_curve_oracle, tx_in, tx_res, codec>>
    /\ UNCHANGED <<solana_tx, wifi, response_data, settlement_io>>
    /\ UNCHANGED fetch_vars
    /\ UNCHANGED wallet_vars

NextParse == ParseBoth

SpecParse == InitParse /\ [][NextParse]_vars

-----------------------------------------------------------------------------
(* A caller of solana_tx: new, transfers, signature, serialization *)

\* the keys a caller passes: three wallets and the System Program itself
TxKeys == {Key(1), Key(2), Key(3), SYSTEM_PROGRAM_ID}

\* the sizes of the output buffer: the caller's, and one too small for a signature
SerializeSizes == {SERIALIZED_TX_SIZE, SOLANA_SIGNATURE_SIZE}

InitSolanaTx ==
    /\ on_curve_oracle \in {CHOOSE o \in CurveOracles : TRUE}
    /\ tx_in = NoTxInput
    /\ tx_res = NoTxResult
    /\ FetchIdle
    /\ WalletReady
    /\ codec = NoCodec
    /\ PartsIdle

\* tx = solana_tx_new(blockhash, &payer)
TxNew ==
    /\ solana_tx.stage = "none"
    /\ \E text \in {BLOCKHASH_TEXT, SHORT_BASE58_TEXT}, payer \in TxKeys, calloc_ok \in BOOLEAN :
         \E r \in {solana_tx_new(text, payer, calloc_ok)} :
           solana_tx' = IF r.ok
                        THEN [NoTransaction EXCEPT !.stage = "live", !.tx = r.tx, !.last = "new"]
                        ELSE [NoTransaction EXCEPT !.stage = "null", !.last = "new"]
    /\ UNCHANGED <<on_curve_oracle, tx_in, tx_res, codec>>
    /\ UNCHANGED <<parse_io, wifi, response_data, settlement_io>>
    /\ UNCHANGED fetch_vars
    /\ UNCHANGED wallet_vars

\* solana_tx_add_transfer(tx, &from, &to, lamports)
TxAddTransfer ==
    /\ solana_tx.stage = "live"
    /\ solana_tx.transfers < MaxTransfers
    /\ \E from \in TxKeys, to \in TxKeys, malloc_ok \in BOOLEAN :
         \E r \in {solana_tx_add_transfer(solana_tx.tx, from, to, U64(500), malloc_ok)} :
           solana_tx' = [solana_tx EXCEPT !.tx = r.tx, !.transfers = @ + 1,
                                          !.last = "add_transfer", !.err = r.err,
                                          !.output = <<>>]
    /\ UNCHANGED <<on_curve_oracle, tx_in, tx_res, codec>>
    /\ UNCHANGED <<parse_io, wifi, response_data, settlement_io>>
    /\ UNCHANGED fetch_vars
    /\ UNCHANGED wallet_vars

\* the caller takes the message, has the wallet sign it and hands the
\* signature over: solana_tx_get_message, solana_wallet_sign,
\* solana_tx_add_signature
TxAddSignature ==
    /\ solana_tx.stage = "live"
    /\ \E m \in {solana_tx_get_message(solana_tx.tx, MESSAGE_BUFFER_SIZE)} :
         /\ m.err = "ESP_OK"
         /\ \E signature \in {crypto_sign(m.message, DeviceWallet.secret_key)} :
              solana_tx' = [solana_tx EXCEPT
                              !.tx = solana_tx_add_signature(solana_tx.tx, signature),
                              !.signed_message = m.message,
                              !.last = "add_signature", !.err = "ESP_OK",
                              !.output = <<>>]
    /\ UNCHANGED <<on_curve_oracle, tx_in, tx_res, codec>>
    /\ UNCHANGED <<parse_io, wifi, response_data, settlement_io>>
    /\ UNCHANGED fetch_vars
    /\ UNCHANGED wallet_vars

\* solana_tx_serialize(tx, output, &output_len, max_len)
TxSerialize ==
    /\ solana_tx.stage = "live"
    /\ \E max_len \in SerializeSizes :
         \E r \in {solana_tx_serialize(solana_tx.tx, max_len)} :
           solana_tx' = [solana_tx EXCEPT !.last = "serialize", !.err = r.err,
                                          !.output = r.output]
    /\ UNCHANGED <<on_curve_oracle, tx_in, tx_res, codec>>
    /\ UNCHANGED <<parse_io, wifi, response_data, settlement_io>>
    /\ UNCHANGED fetch_vars
    /\ UNCHANGED wallet_vars

NextSolanaTx == TxNew \/ TxAddTransfer \/ TxAddSignature \/ TxSerialize

SpecSolanaTx == InitSolanaTx /\ [][NextSolanaTx]_vars

-----------------------------------------------------------------------------
(* The WiFi manager, its caller and the events of the driver *)

MAX_RETRY == 5

\* wifi_manager_connect calls made one after the other
MaxConnects == 2

\* a timeout_ms a caller passes
CONNECT_TIMEOUT_MS == 30000

WIFI_CONNECTED_BIT == "WIFI_CONNECTED_BIT"

WIFI_FAIL_BIT == "WIFI_FAIL_BIT"

WifiEvents == {"WIFI_EVENT_STA_START", "WIFI_EVENT_STA_DISCONNECTED", "IP_EVENT_STA_GOT_IP"}

\* wifi_event_handler: the manager after the handler has run for an event;
\* reconnects records an esp_wifi_connect made while the manager is
\* disconnected at its caller's request
wifi_event_handler(w, event) ==
    IF event = "WIFI_EVENT_STA_START"
    THEN [w EXCEPT !.reconnects = @ \/ w.disconnected]
    ELSE IF event = "WIFI_EVENT_STA_DISCONNECTED"
    THEN IF w.s_retry_count < MAX_RETRY
         THEN [w EXCEPT !.s_retry_count = @ + 1, !.s_connected = FALSE,
                        !.reconnects = @ \/ w.disconnected]
         ELSE [w EXCEPT !.bits = @ \cup {WIFI_FAIL_BIT}, !.s_connected = FALSE,
                        !.exhausted_in_call = TRUE]
    ELSE [w EXCEPT !.s_retry_count = 0, !.s_connected = TRUE,
                   !.bits = @ \cup {WIFI_CONNECTED_BIT}, !.got_ip_in_call = TRUE]

\* wifi_manager_connect up to xEventGroupWaitBits: the checks, the
\* configuration and esp_wifi_start, each of which may fail
wifi_manager_connect(w, ssid_ok, timeout_ms, set_config, start) ==
    LET begun == [w EXCEPT !.connects = @ + 1, !.timeout_ms = timeout_ms,
                           !.got_ip_in_call = FALSE, !.exhausted_in_call = FALSE,
                           !.disconnected = FALSE, !.reconnects = FALSE]
        Returns(e) == [begun EXCEPT !.connect_ret = e]
    IN  IF ~w.s_initialized THEN Returns("ESP_ERR_INVALID_STATE")
        ELSE IF ~ssid_ok THEN Returns("ESP_ERR_INVALID_ARG")
        ELSE IF set_config # "ESP_OK" THEN Returns(set_config)
        ELSE IF start # "ESP_OK" THEN Returns(start)
        ELSE [begun EXCEPT !.started = TRUE, !.at = "waiting", !.connect_ret = "pending"]

\* xEventGroupWaitBits(group, CONNECTED | FAIL, pdTRUE, pdFALSE, ticks)
\* returns, and wifi_manager_connect with it: the bits that ended the wait
\* are cleared; timed_out is the return with no bit set
WaitBitsReturns(w, timed_out) ==
    LET woken == [w EXCEPT !.at = "out", !.s_retry_count = 0,
                           !.bits = IF timed_out THEN @ ELSE {}]
    IN  IF WIFI_CONNECTED_BIT \in w.bits /\ ~timed_out
        THEN [woken EXCEPT !.connect_ret = "ESP_OK"]
        ELSE IF WIFI_FAIL_BIT \in w.bits /\ ~timed_out
        THEN [woken EXCEPT !.connect_ret = "ESP_FAIL"]
        ELSE [woken EXCEPT !.connect_ret = "ESP_ERR_TIMEOUT"]

\* wifi_manager_disconnect: [err, w]
wifi_manager_disconnect(w, esp_wifi_disconnect) ==
    IF ~w.s_initialized THEN [err |-> "ESP_ERR_INVALID_STATE", w |-> w]
    ELSE [ err |-> esp_wifi_disconnect,
           w   |-> [w EXCEPT !.s_connected = FALSE, !.disconnected = TRUE,
                             !.reconnects = FALSE] ]

\* wifi_manager_is_connected
wifi_manager_is_connected(w) == w.s_connected

InitWifi ==
    /\ on_curve_oracle \in {CHOOSE o \in CurveOracles : TRUE}
    /\ tx_in = NoTxInput
    /\ tx_res = NoTxResult
    /\ FetchIdle
    /\ WalletReady
    /\ codec = NoCodec
    /\ PartsIdle

\* wifi_manager_init, which may fail before it sets s_initialized
WifiInit ==
    /\ wifi.at = "out"
    /\ ~wifi.s_initialized
    /\ \E init_ok \in BOOLEAN : wifi' = [wifi EXCEPT !.s_initialized = init_ok]
    /\ UNCHANGED <<on_curve_oracle, tx_in, tx_res, codec>>
    /\ UNCHANGED <<parse_io, solana_tx, response_data, settlement_io>>
    /\ UNCHANGED fetch_vars
    /\ UNCHANGED wallet_vars

\* the event loop runs the handler for an event of the driver, which
\* raises events once esp_wifi_start has started it
WifiEvent ==
    /\ wifi.s_initialized
    /\ wifi.started
    /\ \E event \in WifiEvents : wifi' = wifi_event_handler(wifi, event)
    /\ UNCHANGED <<on_curve_oracle, tx_in, tx_res, codec>>
    /\ UNCHANGED <<parse_io, solana_tx, response_data, settlement_io>>
    /\ UNCHANGED fetch_vars
    /\ UNCHANGED wallet_vars

WifiConnectCall ==
    /\ wifi.at = "out"
    /\ wifi.connects < MaxConnects
    /\ \E ssid_ok \in BOOLEAN, timeout_ms \in {0, CONNECT_TIMEOUT_MS},
          set_config \in {"ESP_OK", "ESP_ERR_WIFI_PASSWORD"},
          start \in {"ESP_OK", "ESP_ERR_NO_MEM"} :
         wifi' = wifi_manager_connect(wifi, ssid_ok, timeout_ms, set_config, start)
    /\ UNCHANGED <<on_curve_oracle, tx_in, tx_res, codec>>
    /\ UNCHANGED <<parse_io, solana_tx, response_data, settlement_io>>
    /\ UNCHANGED fetch_vars
    /\ UNCHANGED wallet_vars

\* the wait ends on a bit, or, when the caller gave a timeout, on the
\* timeout while no bit is set
WifiConnectReturn ==
    /\ wifi.at = "waiting"
    /\ \E timed_out \in BOOLEAN :
         /\ timed_out <=> wifi.bits = {}
         /\ timed_out => wifi.timeout_ms > 0
         /\ wifi' = WaitBitsReturns(wifi, timed_out)
    /\ UNCHANGED <<on_curve_oracle, tx_in, tx_res, codec>>
    /\ UNCHANGED <<parse_io, solana_tx, response_data, settlement_io>>
    /\ UNCHANGED fetch_vars
    /\ UNCHANGED wallet_vars

WifiDisconnect ==
    /\ wifi.at = "out"
    /\ \E esp_wifi_disconnect \in {"ESP_OK", "ESP_FAIL"} :
         wifi' = wifi_manager_disconnect(wifi, esp_wifi_disconnect).w
    /\ UNCHANGED <<on_curve_oracle, tx_in, tx_res, codec>>
    /\ UNCHANGED <<parse_io, solana_tx, response_data, settlement_io>>
    /\ UNCHANGED fetch_vars
    /\ UNCHANGED wallet_vars

NextWifi == WifiInit \/ WifiEvent \/ WifiConnectCall \/ WifiConnectReturn \/ WifiDisconnect

SpecWifi == InitWifi /\ [][NextWifi]_vars

(***************************************************************************)
(* The HTTP response accumulator of x402_client.c                          *)
(***************************************************************************)
\* .buffer_size of the esp_http_client configuration
HTTP_BUFFER_SIZE == 4096

\* the first allocation of the handler
INITIAL_CAPACITY == 4096

MaxDataEvents == 4

\* the lengths an HTTP_EVENT_ON_DATA event carries
DataLens == {1, HTTP_BUFFER_SIZE - 1, HTTP_BUFFER_SIZE}

\* http_event_handler on HTTP_EVENT_ON_DATA: the buffer afterwards.
\* realloc of a NULL pointer allocates; a failed realloc leaves the old
\* block allocated and the pointer to it overwritten with NULL.
http_event_handler(buffer, data_len, malloc_ok, realloc_ok) ==
    LET first   == IF ~buffer.data
                   THEN [buffer EXCEPT !.capacity = INITIAL_CAPACITY,
                                       !.data = malloc_ok, !.len = 0]
                   ELSE buffer
        grown   == IF first.len + data_len >= first.capacity
                   THEN [first EXCEPT !.capacity = 2 * @,
                                      !.data = realloc_ok,
                                      !.leaked = IF first.data /\ ~realloc_ok
                                                 THEN @ + 1 ELSE @]
                   ELSE first
    IN  IF grown.data
        THEN [grown EXCEPT !.len = @ + data_len]
        ELSE grown

InitHttp ==
    /\ on_curve_oracle \in {CHOOSE o \in CurveOracles : TRUE}
    /\ tx_in = NoTxInput
    /\ tx_res = NoTxResult
    /\ FetchIdle
    /\ WalletReady
    /\ codec = NoCodec
    /\ PartsIdle

\* http_request: http_buffer_t response_buffer = {0}
HttpRequestBegin ==
    /\ response_data.stage = "none"
    /\ response_data' = [NoResponseData EXCEPT !.stage = "open"]
    /\ UNCHANGED <<on_curve_oracle, tx_in, tx_res, codec>>
    /\ UNCHANGED <<parse_io, solana_tx, wifi, settlement_io>>
    /\ UNCHANGED fetch_vars
    /\ UNCHANGED wallet_vars

\* one HTTP_EVENT_ON_DATA event; the copy writes data[len .. len + data_len - 1]
\* and the NUL data[len + data_len]
HttpOnData ==
    /\ response_data.stage = "open"
    /\ response_data.events < MaxDataEvents
    /\ \E data_len \in DataLens, malloc_ok \in BOOLEAN, realloc_ok \in BOOLEAN :
         \E after \in {http_event_handler(response_data, data_len, malloc_ok, realloc_ok)} :
           response_data' =
             [after EXCEPT !.received = @ + data_len,
                           !.events = @ + 1,
                           !.inside = @ /\ (after.data => after.len < after.capacity)]
    /\ UNCHANGED <<on_curve_oracle, tx_in, tx_res, codec>>
    /\ UNCHANGED <<parse_io, solana_tx, wifi, settlement_io>>
    /\ UNCHANGED fetch_vars
    /\ UNCHANGED wallet_vars

\* esp_http_client_perform returns ESP_OK: *body_out = response_buffer.data,
\* *body_len_out = response_buffer.len
HttpRequestReturn ==
    /\ response_data.stage = "open"
    /\ response_data' = [response_data EXCEPT !.stage = "returned"]
    /\ UNCHANGED <<on_curve_oracle, tx_in, tx_res, codec>>
    /\ UNCHANGED <<parse_io, solana_tx, wifi, settlement_io>>
    /\ UNCHANGED fetch_vars
    /\ UNCHANGED wallet_vars

NextHttp == HttpRequestBegin \/ HttpOnData \/ HttpRequestReturn

SpecHttp == InitHttp /\ [][NextHttp]_vars

(***************************************************************************)
(* The decode buffer of x402_decode_settlement_response                    *)
(***************************************************************************)
\* uint8_t decoded[2048]
DECODED_SIZE == 2048

\* char payment_response[4096] of x402_fetch
PAYMENT_RESPONSE_SIZE == 4096

\* x402_base64_decode(encoded, decoded_out, max_len, &out_len): mbedtls
\* refuses a text with a foreign character and one whose bytes do not fit
\* max_len, and reports the length in both cases of a well-formed text
x402_base64_decode(encoded, max_len) ==
    LET r == mbedtls_base64_decode(encoded)
    IN  IF ~r.ok THEN [err |-> "ESP_FAIL", out_len |-> 0]
        ELSE IF max_len < Len(r.out) THEN [err |-> "ESP_FAIL", out_len |-> Len(r.out)]
        ELSE [err |-> "ESP_OK", out_len |-> Len(r.out)]

\* x402_decode_settlement_response, step 1 and the terminating NUL:
\* decoded[decoded_len] = 0 is written at index decoded_len
DecodeAndTerminate(encoded_b64) ==
    LET r == x402_base64_decode(encoded_b64, DECODED_SIZE)
    IN  IF r.err # "ESP_OK"
        THEN [err |-> r.err, decoded_len |-> r.out_len, terminated |-> FALSE, nul_at |-> 0]
        ELSE [err |-> "ESP_OK", decoded_len |-> r.out_len, terminated |-> TRUE,
              nul_at |-> r.out_len]

\* the lengths of the values taken from the header
ValueLens == {4, 8, 2724, 2728, 2731, 2732, 2736, PAYMENT_RESPONSE_SIZE - 4, PAYMENT_RESPONSE_SIZE - 1}

\* a value of that length: characters of the alphabet (or one that is not),
\* then the padding
ValueText(len, pad, valid) ==
    [i \in 1..len |-> IF i > len - pad THEN "="
                      ELSE IF ~valid /\ i = 1 THEN "!" ELSE "A"]

InitDecode ==
    /\ on_curve_oracle \in {CHOOSE o \in CurveOracles : TRUE}
    /\ tx_in = NoTxInput
    /\ tx_res = NoTxResult
    /\ FetchIdle
    /\ WalletReady
    /\ codec = NoCodec
    /\ PartsIdle

\* x402_extract_header fills payment_response[4096]
ExtractPaymentResponse ==
    /\ settlement_io.stage = "none"
    /\ \E len \in ValueLens, pad \in 0..2, valid \in BOOLEAN :
         settlement_io' = [NoDecode EXCEPT !.stage = "taken", !.value_len = len,
                                           !.pad = pad, !.valid = valid]
    /\ UNCHANGED <<on_curve_oracle, tx_in, tx_res, codec>>
    /\ UNCHANGED <<parse_io, solana_tx, wifi, response_data>>
    /\ UNCHANGED fetch_vars
    /\ UNCHANGED wallet_vars

\* x402_decode_settlement_response(payment_response, &settlement). What
\* cJSON makes of the decoded bytes is the server's choice; after a write
\* past the array the function's result is whatever the build makes of it.
DecodeSettlement ==
    /\ settlement_io.stage = "taken"
    /\ \E d \in {DecodeAndTerminate(ValueText(settlement_io.value_len, settlement_io.pad,
                                               settlement_io.valid))} :
         \E returned \in IF d.err # "ESP_OK" THEN {d.err}
                     ELSE IF d.nul_at >= DECODED_SIZE
                          THEN {"ESP_OK", "ESP_FAIL", "stack overwritten"}
                          ELSE {"ESP_OK", "ESP_FAIL"} :
           settlement_io' = [settlement_io EXCEPT !.stage = "decoded",
                                                  !.err = d.err,
                                                  !.decoded_len = d.decoded_len,
                                                  !.terminated = d.terminated,
                                                  !.nul_at = d.nul_at,
                                                  !.ret = returned]
    /\ UNCHANGED <<on_curve_oracle, tx_in, tx_res, codec>>
    /\ UNCHANGED <<parse_io, solana_tx, wifi, response_data>>
    /\ UNCHANGED fetch_vars
    /\ UNCHANGED wallet_vars

NextDecode == ExtractPaymentResponse \/ DecodeSettlement

SpecDecode == InitDecode /\ [][NextDecode]_vars

TxBuilt == tx_res.called /\ tx_res.err = "ESP_OK"

-----------------------------------------------------------------------------
(* Properties of the assembled transaction (under SpecTx) *)

\* number of whole 64-byte slots between the count byte and the message header,
\* the header being found where the builder put it: right in front of the
\* account table, which ends 32 bytes (the blockhash) before the instructions
TxLayout(tx) ==
    LET ins_len == 1 + 1 + 4 + 1 + 9
        acc_end == Len(tx) - ins_len - PUBKEY_LEN
        acc_beg == acc_end - 5 * PUBKEY_LEN
    IN  [ header_at |-> acc_beg - 4,
          slots     |-> (acc_beg - 4 - 1) \div SIGNATURE_LEN,
          slack     |-> (acc_beg - 4 - 1) % SIGNATURE_LEN ]

\* C8: every transaction the builder returns successfully starts with a
\* signature count that equals the number of 64-byte signature slots that
\* follow it, equals num_required_signatures of the message header, and is 2.
C8_SignatureCountMatchesHeader ==
    TxBuilt =>
        LET tx == tx_res.tx
            lay == TxLayout(tx)
        IN  /\ tx_res.tx_len = Len(tx)
            /\ tx[1] = 2
            /\ lay.slack = 0
            /\ tx[1] = lay.slots
            /\ tx[1] = tx[lay.header_at + 1]

C8_Witness ==
    /\ TxBuilt
    /\ tx_in.max_tx_len = TX_DATA_SIZE
    /\ tx_in.fee_payer # tx_in.from_wallet
    /\ on_curve_oracle = "some_on_curve"

\* C9: every successfully assembled transaction has an account table of
\* exactly five entries, in the order fee_payer, payer, source ATA, destination
\* ATA, token program, and the header (2, 1, 1), so that exactly the first two
\* entries are signers.
C9_AccountTableAndHeader ==
    TxBuilt =>
        LET tx == tx_res.tx
            m  == MessageOffset(tx)
            src == spl_token_get_associated_token_address_with_program(
                       tx_in.from_wallet, tx_in.mint, tx_in.token_program_id,
                       on_curve_oracle)
            dst == spl_token_get_associated_token_address_with_program(
                       tx_in.to_wallet, tx_in.mint, tx_in.token_program_id,
                       on_curve_oracle)
        IN  /\ Slice(tx, m, 3) = <<2, 1, 1>>
            /\ tx[m + 4] = 5
            /\ AccountAt(tx, 0) = tx_in.fee_payer
            /\ AccountAt(tx, 1) = tx_in.from_wallet
            /\ AccountAt(tx, 2) = src.pda
            /\ AccountAt(tx, 3) = dst.pda
            /\ AccountAt(tx, 4) = tx_in.token_program_id
            /\ Slice(tx, m + 4 + 5 * PUBKEY_LEN, PUBKEY_LEN) = tx_in.recent_blockhash
            /\ Len(tx) = InstructionsOffset(tx) + 16

C9_Witness ==
    /\ TxBuilt
    /\ tx_in.token_program_id = TOKEN_2022_PROGRAM_ID
    /\ tx_in.fee_payer # tx_in.from_wallet
    /\ tx_in.from_wallet # tx_in.to_wallet

\* the 64-bit value whose little-endian bytes are b[1..8], as 16-bit limbs
FromLittleEndian(b) == [k \in 1..4 |-> b[2 * k - 1] + 256 * b[2 * k]]

\* C10: every successfully assembled transaction holds exactly one
\* instruction, with program index 4, account indices [2, 3, 1] and nine data
\* bytes: 0x03, then the amount in little-endian order.
C10_SingleTransferInstruction ==
    TxBuilt =>
        LET tx == tx_res.tx
            o  == InstructionsOffset(tx)
        IN  /\ tx[o + 1] = 1
            /\ tx[o + 2] = 4
            /\ Slice(tx, o + 2, 4) = <<3, 2, 3, 1>>
            /\ tx[o + 7] = 9
            /\ tx[o + 8] = 3
            /\ FromLittleEndian(Slice(tx, o + 8, 8)) = tx_in.amount
            /\ Len(tx) = o + 16

C10_Witness ==
    /\ TxBuilt
    /\ tx_in.amount = <<1800, 1286, 772, 258>>
    /\ Slice(tx_res.tx, InstructionsOffset(tx_res.tx) + 8, 8) = <<8, 7, 6, 5, 4, 3, 2, 1>>

\* the hash find_program_address computes for one bump over three 32-byte seeds
PdaHash(seeds, bump, program_id) ==
    sha256(PdaPreimage(seeds[1] \o seeds[2] \o seeds[3], bump, program_id))

\* the greatest bump in [0, 255] whose hash is off the curve, -1 when every
\* one of the 256 hashes is on it; stated over the set of bumps, with no loop
GreatestOffCurveBump(seeds, program_id, oracle) ==
    LET off == { b \in 0..255 : ~is_on_curve(PdaHash(seeds, b, program_id), oracle) }
    IN  IF off = {} THEN -1 ELSE CHOOSE b \in off : \A y \in off : y <= b

\* that bump for every derivation the builder is asked for
ATA_BUMPS ==
    [ w \in Keys |->
        [ p \in {SPL_TOKEN_PROGRAM_ID, TOKEN_2022_PROGRAM_ID} |->
            [ o \in CurveOracles |->
                GreatestOffCurveBump(AtaSeeds(w, USDC_DEVNET_MINT, p),
                                     SPL_ASSOCIATED_TOKEN_PROGRAM_ID, o) ] ] ]

SourceBump == ATA_BUMPS[tx_in.from_wallet][tx_in.token_program_id][on_curve_oracle]

DestinationBump == ATA_BUMPS[tx_in.to_wallet][tx_in.token_program_id][on_curve_oracle]

\* C13: each derived address the builder writes is the hash for the greatest
\* bump in [0, 255] whose hash is off the curve (the bumps are tried from 255
\* down, at most 256 of them), and the derivation fails, with ESP_FAIL, if
\* and only if all 256 hashes are on the curve.
C13_GreatestOffCurveBump ==
    (tx_res.called /\ ~tx_in.has_null) =>
        /\ (tx_res.err = "ESP_FAIL") <=> (SourceBump = -1 \/ DestinationBump = -1)
        /\ TxBuilt =>
              /\ AccountAt(tx_res.tx, 2)
                   = PdaHash(AtaSeeds(tx_in.from_wallet, tx_in.mint, tx_in.token_program_id),
                             SourceBump, SPL_ASSOCIATED_TOKEN_PROGRAM_ID)
              /\ AccountAt(tx_res.tx, 3)
                   = PdaHash(AtaSeeds(tx_in.to_wallet, tx_in.mint, tx_in.token_program_id),
                             DestinationBump, SPL_ASSOCIATED_TOKEN_PROGRAM_ID)

\* a transaction was built after bump 255 had been passed over
C13_Witness ==
    /\ TxBuilt
    /\ SourceBump >= 0
    /\ SourceBump < 255

\* the address find_program_address derives for the Associated Token program
AtaOver(seeds) ==
    find_program_address(seeds, SPL_ASSOCIATED_TOKEN_PROGRAM_ID, on_curve_oracle).pda

\* C14, as stated: the source and destination token accounts are the PDAs of
\* the Associated Token program over the seeds wallet, then mint, then token
\* program.
C14_SeedsWalletMintProgram ==
    TxBuilt =>
        /\ AccountAt(tx_res.tx, 2)
             = AtaOver(<<tx_in.from_wallet, tx_in.mint, tx_in.token_program_id>>)
        /\ AccountAt(tx_res.tx, 3)
             = AtaOver(<<tx_in.to_wallet, tx_in.mint, tx_in.token_program_id>>)

\* C14, amended: the source and destination token accounts are the PDAs of
\* the Associated Token program over three 32-byte seeds concatenated in the
\* order wallet, then token program, then mint.
C14_SeedsWalletProgramMint ==
    TxBuilt =>
        /\ AccountAt(tx_res.tx, 2)
             = AtaOver(<<tx_in.from_wallet, tx_in.token_program_id, tx_in.mint>>)
        /\ AccountAt(tx_res.tx, 3)
             = AtaOver(<<tx_in.to_wallet, tx_in.token_program_id, tx_in.mint>>)
        /\ \A i \in 1..3 :
             Len(AtaSeeds(tx_in.from_wallet, tx_in.mint, tx_in.token_program_id)[i]) = PUBKEY_LEN

\* a transaction was built for a Token-2022 mint between two different wallets
C14_Witness ==
    /\ TxBuilt
    /\ tx_in.token_program_id = TOKEN_2022_PROGRAM_ID
    /\ tx_in.from_wallet # tx_in.to_wallet
    /\ AccountAt(tx_res.tx, 2) # AccountAt(tx_res.tx, 3)

-----------------------------------------------------------------------------
(* Properties of x402_fetch (under Spec) *)

\* how many exchanges of a kind the current call has issued
Count(kind) == Cardinality({ i \in 1..Len(exchanges) : exchanges[i] = kind })

\* the initial (unpaid) request has been answered with an HTTP response
InitialAnswered == Len(replies) >= 1 /\ replies[1].err = "ESP_OK"

\* ... and that response is a 402 whose body has a first payment option
ChallengeReceived ==
    /\ InitialAnswered
    /\ replies[1].status_code = 402
    /\ ~replies[1].body.is_null
    /\ replies[1].body.doc.parses
    /\ replies[1].body.doc.accepts_is_array
    /\ Len(replies[1].body.doc.accepts) >= 1

FirstOption == replies[1].body.doc.accepts[1]

\* the paid retry has been answered with an HTTP response
RetryAnswered == Len(replies) = 4 /\ replies[4].err = "ESP_OK"

Failed == pc = "returned" /\ ret # "ESP_OK"

\* C1: when the initial response is not a 402, the call has returned ESP_OK
\* with that response's status and body, payment_made is false, and the
\* unpaid request is the only exchange the call issued.
C1_NonPaymentResponsePassesThrough ==
    (InitialAnswered /\ replies[1].status_code # 402)
        => /\ pc = "returned"
           /\ ret = "ESP_OK"
           /\ exchanges = <<"unpaid">>
           /\ response_out.status_code = replies[1].status_code
           /\ response_out.body = replies[1].body
           /\ response_out.payment_made = FALSE

C1_Witness ==
    /\ InitialAnswered
    /\ replies[1].status_code = 200
    /\ replies[1].body = ResourceBody
    /\ pc = "returned"
    /\ response_out.body = ResourceBody

\* C2 as stated: once a call has returned it has issued the unpaid request
\* exactly once and the paid retry at most once, and a 402 on the retry ends
\* the call with the retry as its last exchange.
C2_UnpaidExactlyOnce ==
    /\ pc = "returned" => Count("unpaid") = 1
    /\ Count("paid") <= 1
    /\ (RetryAnswered /\ replies[4].status_code = 402)
           => pc = "returned" /\ exchanges[Len(exchanges)] = "paid"

\* C2, amended: the unpaid request and the paid retry are issued at most
\* once each; the unpaid request is issued exactly once by every call that
\* was given valid pointers and an HTTP client; a 402 on the retry ends the
\* call with the retry as its last exchange.
C2_NoRequestIsRepeated ==
    /\ Count("unpaid") <= 1
    /\ Count("paid") <= 1
    /\ (pc # "idle" /\ call.args_ok /\ call.http_client_ok) => Count("unpaid") = 1
    /\ (pc = "returned" /\ ~(call.args_ok /\ call.http_client_ok)) => exchanges = <<>>
    /\ (RetryAnswered /\ replies[4].status_code = 402)
           => pc = "returned" /\ exchanges[Len(exchanges)] = "paid"

C2_Witness ==
    /\ RetryAnswered
    /\ replies[4].status_code = 402
    /\ pc = "returned"
    /\ exchanges = <<"unpaid", "mint_probe", "blockhash", "paid">>

\* C3: a 402 on the paid retry makes x402_fetch return a failure.
C3_RejectedRetryIsFailure ==
    (ChallengeReceived /\ RetryAnswered /\ replies[4].status_code = 402)
        => Failed

\* C4: a challenge whose maxAmountRequired is "0" makes the call fail with
\* the unpaid request as the only exchange issued.
C4_ZeroAmountFailsBeforeAnyRpc ==
    (ChallengeReceived /\ FirstOption.maxAmountRequired = Field(<<"0">>))
        => Failed /\ exchanges = <<"unpaid">> /\ sign_count = 0

C4_Witness ==
    /\ ChallengeReceived
    /\ FirstOption.maxAmountRequired = Field(<<"0">>)
    /\ FirstOption.payTo = Field(KEY_TEXTS[2])
    /\ FirstOption.asset = Field(MINT_TEXT)
    /\ FirstOption.extra = Extra(TRUE, Field(FEE_PAYER_TEXT))
    /\ Failed

AllDigits(str) == Len(str) > 0 /\ \A i \in 1..Len(str) : IsDigit(str[i])

\* the decimal value of a digit string fits 64 bits
RECURSIVE FitsU64(_, _, _)
FitsU64(str, i, acc) ==
    IF i > Len(str) THEN TRUE
    ELSE LET m == U64MulAdd10(acc, DigitValue(str[i]))
         IN  ~m.overflow /\ FitsU64(str, i + 1, m.value)

\* C5: payment creation gets past amount parsing (the mint probe is the
\* next thing it does) only for a maxAmountRequired made of decimal digits
\* whose value is in [1, 2^64-1].
C5_OnlyPlainDigitsProceed ==
    Count("mint_probe") >= 1
        => /\ AllDigits(requirements.amount)
           /\ FitsU64(requirements.amount, 1, U64_ZERO)
           /\ payment.amount # U64_ZERO

C7_SupportedQueriedWhenNoFeePayer ==
    (pc = "returned" /\ requirements.valid /\ requirements.fee_payer = <<>>)
        => Count("supported") >= 1


\* x402_create_solana_payment has just produced a payment payload: the
\* blockhash was the last reply taken
PayloadProduced == x_payment.payload # NoPayload /\ Len(replies) = 3

ExpectedPayloadJson ==
    JsonObject(<<
        JsonMember(KEY_X402_VERSION, JsonNumber(1)),
        JsonMember(KEY_SCHEME, JsonString(X402_SCHEME_EXACT)),
        JsonMember(KEY_NETWORK, JsonString(requirements.network)),
        JsonMember(KEY_PAYLOAD, JsonObject(<<
            JsonMember(KEY_TRANSACTION,
                       JsonString(mbedtls_base64_encode(x_payment.tx_data))) >>)) >>)

\* C12: the X-PAYMENT value of a paid retry Base64-decodes to the text of a
\* JSON object whose top-level members are exactly x402Version = 1, scheme =
\* "exact", network = the requirement's network tag, and payload, which
\* holds only the transaction string; nothing is nested under "kind".
C12_XPaymentIsFlatObject ==
    (pc = "await_retry") =>
        LET decoded == mbedtls_base64_decode(x_payment.header.value)
        IN  /\ x_payment.sent
            /\ x_payment.header.name = X402_HEADER_PAYMENT
            /\ decoded.ok
            /\ decoded.out = StringBytes(cJSON_PrintUnformatted(ExpectedPayloadJson))

\* a retry is in flight for a challenge that announced a scheme other than "exact"
C12_Witness ==
    /\ pc = "await_retry"
    /\ x_payment.header.value # <<>>
    /\ FirstOption.scheme = Field(SCHEME_UPTO)
    /\ requirements.network = SOLANA_MAINNET


\* the owner the mint probe's reply names, decoded
ProbedProgram == DecodeKey(replies[2].body.member.val).out

\* the token account of a wallet for the payment's mint under a token program
TokenAccount(wallet_pubkey, token_program) ==
    AtaOver(<<wallet_pubkey, token_program, DecodeKey(requirements.asset).out>>)

\* C15: the program id the mint probe returned is the fifth entry of the
\* account table and a seed of both derived token accounts; under the other
\* of the two token programs both token accounts would be different.
C15_ProbedProgramIsUsedThroughout ==
    PayloadProduced =>
        LET tx == x_payment.tx_data
            payer == solana_wallet_get_pubkey(DeviceWallet)
            recipient == DecodeKey(requirements.recipient).out
        IN  /\ AccountAt(tx, 4) = ProbedProgram
            /\ AccountAt(tx, 2) = TokenAccount(payer, ProbedProgram)
            /\ AccountAt(tx, 3) = TokenAccount(recipient, ProbedProgram)
            /\ \A other \in {SPL_TOKEN_PROGRAM_ID, TOKEN_2022_PROGRAM_ID} \ {ProbedProgram} :
                  /\ AccountAt(tx, 2) # TokenAccount(payer, other)
                  /\ AccountAt(tx, 3) # TokenAccount(recipient, other)

\* a payment is on its way for a mint that the Token-2022 program owns
C15_Witness ==
    /\ PayloadProduced
    /\ x_payment.sent
    /\ ProbedProgram = TOKEN_2022_PROGRAM_ID
    /\ AccountAt(x_payment.tx_data, 4) = TOKEN_2022_PROGRAM_ID

\* the mint probe has answered with an owner that decodes to 32 bytes
MintOwnerKnown ==
    /\ Len(replies) >= 2
    /\ (spl_token_get_mint_program(replies[2])).err = "ESP_OK"

\* C16: when the owner the mint probe reports is neither the classic Token
\* program nor Token-2022, payment creation fails and no transaction is
\* built, signed or transmitted.
C16_OtherOwnerIsRejected ==
    (MintOwnerKnown /\ ProbedProgram \notin {SPL_TOKEN_PROGRAM_ID, TOKEN_2022_PROGRAM_ID}) =>
        /\ pc = "returned"
        /\ ret # "ESP_OK"
        /\ Count("blockhash") = 0
        /\ sign_count = 0
        /\ ~x_payment.sent


ReceiptHeader == replies[4].headers.payment_response

ReceiptPresent == RetryAnswered /\ x402_extract_header(replies[4].headers)

C19_UndecodableReceiptIsAnError ==
    (ReceiptPresent /\ ~(ReceiptHeader.base64_ok /\ ReceiptHeader.json_ok)) =>
        /\ pc = "returned"
        /\ ret # "ESP_OK"

\* the receipt decodes and has the three members with their types
ReceiptValid ==
    /\ ReceiptPresent
    /\ ReceiptHeader.base64_ok
    /\ ReceiptHeader.json_ok
    /\ ReceiptHeader.transaction.is_string
    /\ ReceiptHeader.success_is_bool
    /\ ReceiptHeader.network.is_string

\* C20: when the retry is answered 200 with a valid receipt header, the call
\* has returned ESP_OK with status 200, payment_made true, and the
\* settlement's transaction, success and network are the receipt's.
C20_ValidReceiptIsSettlement ==
    (ReceiptValid /\ replies[4].status_code = 200) =>
        /\ pc = "returned"
        /\ ret = "ESP_OK"
        /\ response_out.status_code = 200
        /\ response_out.payment_made = TRUE
        /\ response_out.settlement.transaction = ReceiptHeader.transaction.val
        /\ response_out.settlement.success = ReceiptHeader.success
        /\ response_out.settlement.network = ReceiptHeader.network.val

\* a settled payment whose receipt reports success
C20_Witness ==
    /\ ReceiptValid
    /\ replies[4].status_code = 200
    /\ ReceiptHeader.success
    /\ response_out.settlement.transaction = RECEIPT_TRANSACTION
    /\ response_out.settlement.network = X402_NETWORK_SOLANA_DEVNET


\* the 402 body of the initial response cannot be parsed into requirements
ChallengeUnparsable ==
    /\ InitialAnswered
    /\ replies[1].status_code = 402
    /\ \/ replies[1].body.is_null
       \/ x402_parse_payment_requirements(replies[1].body.doc).err # "ESP_OK"

\* C21: when the i-th exchange of a call (unpaid request, mint probe,
\* blockhash fetch, paid retry) ends in a transport failure, or the challenge
\* cannot be parsed, the call has returned a failure, no exchange after the
\* failed one was issued, and nothing was signed or reported as paid in its
\* place.
C21_FailuresAreSurfaced ==
    /\ \A i \in 1..Len(replies) :
          replies[i].err # "ESP_OK" =>
              /\ pc = "returned"
              /\ ret # "ESP_OK"
              /\ Len(replies) = i
              /\ Len(exchanges) = i
              /\ response_out.payment_made = FALSE
              /\ i <= 3 => (sign_count = 0 /\ ~x_payment.sent)
    /\ ChallengeUnparsable =>
          /\ pc = "returned"
          /\ ret # "ESP_OK"
          /\ exchanges = UnpaidRequests
          /\ sign_count = 0

\* the blockhash fetch failed in transport after a successful mint probe
C21_Witness ==
    /\ Len(replies) = 3
    /\ replies[3].err # "ESP_OK"
    /\ exchanges = <<"unpaid", "mint_probe", "blockhash">>
    /\ ret = "ESP_FAIL"

-----------------------------------------------------------------------------
(* The heap across a call *)

\* the objects allocated since x402_fetch was entered and still allocated
AllocatedInCall == heap \ call.heap

-----------------------------------------------------------------------------
(* The wallet's key material (under SpecWallet) *)

\* C23: while the wallet is live, after any operations on it, the public key
\* its accessor returns is the trailing 32 bytes of the stored secret, the
\* stored secret is the blob supplied at construction, and every public key
\* and signature an operation has returned was made from that blob.
C23_KeyMaterialIsStable ==
    wallet.state = "live" =>
        /\ Len(wallet.supplied) = 64
        /\ solana_wallet_get_pubkey(wallet.keys) = SubSeq(wallet.keys.secret_key, 33, 64)
        /\ wallet.keys.secret_key = wallet.supplied
        /\ \A i \in 1..Len(wallet_log) :
              /\ wallet_log[i].op = "get_pubkey" =>
                     wallet_log[i].out = SubSeq(wallet.supplied, 33, 64)
              /\ (wallet_log[i].op = "sign" /\ wallet_log[i].err = "ESP_OK") =>
                     \E message \in SignedMessages :
                         wallet_log[i].out = crypto_sign(message, wallet.supplied)

\* an address was read, a message signed, and the public key read after both
C23_Witness ==
    /\ wallet.state = "live"
    /\ wallet.supplied # Zeros(64)
    /\ Len(wallet_log) = 3
    /\ wallet_log[1].op = "get_address" /\ wallet_log[1].err = "ESP_OK"
    /\ wallet_log[2].op = "sign" /\ wallet_log[2].err = "ESP_OK"
    /\ wallet_log[3].op = "get_pubkey"

-----------------------------------------------------------------------------
(* The Base58 round trip (under SpecCodec) *)

\* C24 as stated: for every 32-byte key, the all-zero key and keys with
\* leading zero bytes included, base58_encode succeeds, and base58_decode of
\* its output into a 32-byte buffer succeeds and returns the key, 32 bytes
\* long.
C24_RoundTripReturnsTheKey ==
    /\ codec.stage \in {"encoded", "decoded"} => codec.encoded.ok
    /\ codec.stage = "decoded" =>
           /\ codec.decoded.ok
           /\ Len(codec.decoded.out) = PUBKEY_LEN
           /\ codec.decoded.out = codec.key

\* the round trip returns every key that has a byte that is not zero
C24_RoundTripOfNonZeroKeys ==
    /\ codec.stage \in {"encoded", "decoded"} => codec.encoded.ok
    /\ (codec.stage = "decoded" /\ codec.key # Zeros(PUBKEY_LEN)) =>
           /\ codec.decoded.ok
           /\ Len(codec.decoded.out) = PUBKEY_LEN
           /\ codec.decoded.out = codec.key

\* the all-zero key: 33 characters are written and do not decode
C24_AllZeroKeyIsLost ==
    /\ codec.key = Zeros(PUBKEY_LEN)
    /\ codec.stage = "decoded"
    /\ Len(codec.encoded.out) = PUBKEY_LEN + 1
    /\ ~codec.decoded.ok

-----------------------------------------------------------------------------
(* The builder and the capacity of its output buffer (under SpecTx) *)

\* C25 as stated: whatever max_tx_len is, the bytes the builder has written
\* to tx_out lie at offsets below max_tx_len, and a builder that returns
\* ESP_OK reports a length within max_tx_len.
C25_WritesStayWithinCapacity ==
    tx_res.called =>
        /\ Len(tx_res.tx) <= tx_in.max_tx_len
        /\ tx_res.err = "ESP_OK" => tx_res.tx_len <= tx_in.max_tx_len

\* a buffer of 328 bytes: the four bytes of the account indices are written
\* at offsets 327 to 330 before the builder returns ESP_ERR_NO_MEM
C25_IndicesWrittenPastTheEnd ==
    /\ tx_res.called
    /\ tx_in.max_tx_len = 328
    /\ tx_res.err = "ESP_ERR_NO_MEM"
    /\ Len(tx_res.tx) = 331
    /\ SubSeq(tx_res.tx, 328, 331) = InstructionAccounts

-----------------------------------------------------------------------------
(* Termination of a call (under SpecLive) *)

\* the positions of a call in program order
Rank(p) ==
    CASE p = "idle" -> 0
      [] p = "await_initial" -> 1
      [] p = "await_mint_probe" -> 2
      [] p = "await_blockhash" -> 3
      [] p = "await_retry" -> 4
      [] p = "returned" -> 5

Awaiting == pc \in AwaitPositions

\* the terminal outcomes of a call that has returned
Outcomes ==
    { o \in {"pass_through", "paid", "error"} :
        \/ o = "error" /\ ret # "ESP_OK"
        \/ o = "pass_through" /\ ret = "ESP_OK" /\ exchanges = UnpaidRequests
        \/ o = "paid" /\ ret = "ESP_OK" /\ RetryAnswered }

\* C26: when every exchange returns, a call that waits for an exchange
\* eventually returns; a call that has not returned only moves forward in
\* program order, never back to an earlier step or around the same one; and
\* a call that has returned has exactly one outcome: the response passed
\* through, the paid retry answered, or an error.
C26_EveryCallTerminates ==
    /\ [][pc # "returned" => Rank(pc') > Rank(pc)]_vars
    /\ [](pc = "returned" => Cardinality(Outcomes) = 1)
    /\ [](Awaiting => <>(pc = "returned"))

\* a call that went through all four exchanges and returned
C26_Witness ==
    /\ pc = "returned"
    /\ exchanges = <<"unpaid", "mint_probe", "blockhash", "paid">>
    /\ Len(replies) = 4
    /\ Outcomes = {"paid"}

-----------------------------------------------------------------------------
(* The order of the steps of a call *)

\* is s the beginning of t
IsPrefix(s, t) == Len(s) <= Len(t) /\ s = SubSeq(t, 1, Len(s))

\* the order of the steps as the claim gives it
STATED_ORDER ==
    << "unpaid_request", "challenge_parse", "mint_probe", "derive_atas",
       "blockhash_fetch", "assemble", "sign", "encode", "paid_retry" >>

\* the order of the steps in the program text
PROGRAM_ORDER ==
    << "unpaid_request", "challenge_parse", "mint_probe", "blockhash_fetch",
       "derive_atas", "assemble", "sign", "encode", "paid_retry" >>

\* each step was started after the one before it had succeeded
PredecessorsSucceeded ==
    /\ Len(step_log) >= 2 => (replies[1].err = "ESP_OK" /\ replies[1].status_code = 402)
    /\ Len(step_log) >= 3 =>
           x402_parse_payment_requirements(replies[1].body.doc).err = "ESP_OK"
    /\ Len(step_log) >= 4 => spl_token_get_mint_program(replies[2]).err = "ESP_OK"
    /\ Len(step_log) >= 5 =>
           /\ replies[3].err = "ESP_OK"
           /\ IsKey(DecodeKey(replies[3].body.member.val))
    /\ Len(step_log) >= 8 => sign_count = 1
    /\ Len(step_log) >= 9 => x_payment.sent

-----------------------------------------------------------------------------
(* payment_made and the status of the retry *)

\* C28 as stated: a response that a call with valid pointers returns and
\* that reports a payment, or carries a decoded settlement, is the response
\* of a retry answered with a 2xx status; a
\* retry answered 402 or with another status leaves payment_made false
\* whatever its X-PAYMENT-RESPONSE header holds.
C28_PaymentMadeOnlyAfter2xx ==
    (pc = "returned" /\ call.args_ok
       /\ (response_out.payment_made \/ response_out.settlement # EmptySettlement)) =>
        /\ RetryAnswered
        /\ replies[4].status_code \in 200..299

\* a retry answered 402 with a valid receipt header is reported as paid
C28_RejectedRetryReportedAsPaid ==
    /\ pc = "returned"
    /\ RetryAnswered
    /\ replies[4].status_code = 402
    /\ ReceiptValid
    /\ ret = "ESP_OK"
    /\ response_out.status_code = 402
    /\ response_out.payment_made

-----------------------------------------------------------------------------
(* The amount that is paid *)

\* the value of a string of decimal digits, on 64 bits
RECURSIVE DecimalValue(_, _, _)
DecimalValue(str, i, acc) ==
    IF i > Len(str) THEN acc
    ELSE DecimalValue(str, i + 1, U64MulAdd10(acc, DigitValue(str[i])).value)

\* the amount of the transfer instruction of a serialized transaction
EncodedAmount(tx) == FromLittleEndian(Slice(tx, InstructionsOffset(tx) + 8, 8))

\* C29: in every payment payload produced, the amount of the transfer
\* instruction of the signed transaction is the 64-bit value parsed from the
\* challenge's maxAmountRequired string, unchanged, and for a string that is
\* the decimal numeral of an unsigned 64-bit integer it is that integer:
\* "100" is paid as 100 base units, whatever the decimals of the token.
C29_AmountIsNotScaled ==
    PayloadProduced =>
        LET tx  == x_payment.tx_data
            str == FirstOption.maxAmountRequired.val
        IN  /\ tx[InstructionsOffset(tx) + 8] = SPL_TOKEN_TRANSFER_INSTRUCTION
            /\ EncodedAmount(tx) = strtoull(str).value
            /\ (AllDigits(str) /\ FitsU64(str, 1, U64_ZERO))
                 => EncodedAmount(tx) = DecimalValue(str, 1, U64_ZERO)

C29_Witness ==
    /\ PayloadProduced
    /\ x_payment.sent
    /\ FirstOption.maxAmountRequired = Field(<<"1", "0", "0">>)
    /\ Slice(x_payment.tx_data, InstructionsOffset(x_payment.tx_data) + 8, 8)
         = <<100, 0, 0, 0, 0, 0, 0, 0>>

-----------------------------------------------------------------------------
(* State that outlives a call *)

\* the call has come back to a caller that passed valid pointers
CallReturned == pc = "returned" /\ call.args_ok

\* C30 as stated: when a call returns, the module-level RPC client is what
\* it was when the call began.
C30_ModuleStateAsBeforeTheCall ==
    CallReturned => g_rpc_client = call.g_rpc_client

\* C30, amended: the module-level RPC client is the one thing a call leaves
\* behind.  A client that exists when a call begins is the client the call
\* uses and leaves; a call makes one only after a successful mint probe;
\* request_id grows by one with the call's blockhash request and by nothing
\* else; and a call starts with requirements, payment, payload, signature
\* count and response cleared, whatever the call before it left.
C30_OnlyTheRpcClientOutlivesACall ==
    LET before == call.g_rpc_client
        start  == IF before.created THEN before.request_id
                  ELSE IF g_rpc_client.created THEN solana_rpc_init.request_id
                  ELSE NoRpcClient.request_id
    IN  /\ CallReturned =>
              /\ before.created => g_rpc_client.created
              /\ (g_rpc_client.created /\ ~before.created)
                    => (Len(replies) >= 2 /\ replies[2].err = "ESP_OK")
              /\ g_rpc_client.request_id - start \in 0..1
              /\ Count("blockhash") = 1 => g_rpc_client.request_id = start + 1
              /\ Len(replies) < 2 => g_rpc_client = before
        /\ pc = "await_initial" =>
              /\ g_rpc_client = before
              /\ requirements = EmptyRequirements
              /\ payment = NoPayment
              /\ x_payment = NoXPayment
              /\ sign_count = 0
              /\ response_out = EmptyResponse

C30_Witness ==
    /\ CallReturned
    /\ calls = 2
    /\ call.g_rpc_client = [created |-> TRUE, request_id |-> 2]
    /\ Count("blockhash") = 1
    /\ g_rpc_client = [created |-> TRUE, request_id |-> 3]

-----------------------------------------------------------------------------
(* Only the first element of "accepts" counts *)

\* C31: two 402 bodies whose "accepts" arrays have the same first element
\* give the same result and the same parsed record, whatever follows the
\* first element in either, and both give what the first element gives alone.
C31_OnlyFirstOptionCounts ==
    parse_io.stage = "parsed" =>
        /\ parse_io.a.accepts[1] = parse_io.b.accepts[1]
        /\ parse_io.result_a = parse_io.result_b
        /\ parse_io.result_a
             = x402_parse_payment_requirements(JsonDoc(TRUE, <<parse_io.a.accepts[1]>>))

C31_Witness ==
    /\ parse_io.stage = "parsed"
    /\ Len(parse_io.a.accepts) = 1
    /\ Len(parse_io.b.accepts) = 3
    /\ parse_io.b.accepts[2].payTo = Field(KEY_TEXTS[1])
    /\ parse_io.a.accepts[1].payTo = Field(KEY_TEXTS[2])
    /\ parse_io.result_b.err = "ESP_OK"
    /\ parse_io.result_b.requirements.recipient = KEY_TEXTS[2]
    /\ parse_io.result_b.requirements.amount = <<"1", "0", "0">>

-----------------------------------------------------------------------------
(* Transactions of the System Program builder *)

\* solana_tx_serialize has just emitted a transaction
TxEmitted ==
    /\ solana_tx.stage = "live"
    /\ solana_tx.last = "serialize"
    /\ solana_tx.err = "ESP_OK"

\* the message of the transaction as it stands
CurrentMessage == solana_tx_get_message(solana_tx.tx, MESSAGE_BUFFER_SIZE).message

\* C32 as stated: in every transaction solana_tx_serialize emits, the
\* signature-count prefix is the number of 64-byte signatures between the
\* prefix and the message, and is num_required_signatures, the first byte of
\* the message header.
C32_SignatureCountMatchesHeader ==
    TxEmitted =>
        LET out == solana_tx.output
            m   == CurrentMessage
        IN  /\ SubSeq(out, Len(out) - Len(m) + 1, Len(out)) = m
            /\ (Len(out) - 1 - Len(m)) = out[1] * SOLANA_SIGNATURE_SIZE
            /\ out[1] = m[1]

\* a transfer from a key other than the payer: one signature, two signers
C32_OneSignatureTwoSigners ==
    /\ TxEmitted
    /\ solana_tx.transfers = 1
    /\ solana_tx.output[1] = 1
    /\ Len(solana_tx.output) = 1 + SOLANA_SIGNATURE_SIZE + Len(CurrentMessage)
    /\ solana_tx.output[2 + SOLANA_SIGNATURE_SIZE] = 2
    /\ solana_tx.tx.fee_payer = Key(1)
    /\ solana_tx.tx.accounts[2] = AccountMeta(Key(2), TRUE, TRUE)

\* C33 as stated: once solana_tx_new and any solana_tx_add_transfer calls
\* are done, the account table of the message has the fee payer first, no
\* signer after a non-signer, nothing after a read-only non-signer but
\* read-only non-signers, and signers in exactly the first
\* num_required_signatures places.
C33_AccountTableIsOrdered ==
    solana_tx.stage = "live" =>
        LET accounts == solana_tx.tx.accounts
            m == CurrentMessage
            n == Len(accounts)
            ReadonlyUnsigned(i) == ~accounts[i].is_signer /\ ~accounts[i].is_writable
        IN  /\ m[4] = n
            /\ \A i \in 1..n :
                  SubSeq(m, 5 + (i - 1) * SOLANA_PUBKEY_SIZE, 4 + i * SOLANA_PUBKEY_SIZE)
                    = accounts[i].pubkey
            /\ accounts[1].pubkey = solana_tx.tx.fee_payer
            /\ \A i, j \in 1..n :
                  (i < j /\ accounts[j].is_signer) => accounts[i].is_signer
            /\ \A i, j \in 1..n :
                  (i < j /\ ReadonlyUnsigned(i)) => ReadonlyUnsigned(j)
            /\ \A i \in 1..n : accounts[i].is_signer <=> i <= m[1]

\* a second transfer from a new key: its signer follows the System Program
C33_SignerAfterTheProgram ==
    /\ solana_tx.stage = "live"
    /\ solana_tx.transfers = 2
    /\ solana_tx.err = "ESP_OK"
    /\ solana_tx.tx.accounts
         = << AccountMeta(Key(1), TRUE, TRUE), AccountMeta(Key(3), FALSE, TRUE),
              AccountMeta(SYSTEM_PROGRAM_ID, FALSE, FALSE), AccountMeta(Key(2), TRUE, TRUE) >>
    /\ CurrentMessage[1] = 2
    /\ SubSeq(CurrentMessage, 5 + 3 * SOLANA_PUBKEY_SIZE, 4 + 4 * SOLANA_PUBKEY_SIZE) = Key(2)

\* C34 as stated: a transaction is emitted only when a signature has been
\* added and the message it was made for is the message that is serialized.
C34_SignatureIsForTheMessage ==
    TxEmitted =>
        /\ solana_tx.tx.has_signature
        /\ solana_tx.signed_message = CurrentMessage
        /\ solana_tx.tx.signatures
             = crypto_sign(CurrentMessage, DeviceWallet.secret_key)

\* a transfer added after the signature: the old signature is emitted
\* with the new message
C34_StaleSignatureEmitted ==
    /\ TxEmitted
    /\ solana_tx.transfers = 2
    /\ Len(solana_tx.tx.instructions) = 2
    /\ Len(solana_tx.signed_message) < Len(CurrentMessage)
    /\ SubSeq(solana_tx.output, 2, 1 + SOLANA_SIGNATURE_SIZE)
         = crypto_sign(solana_tx.signed_message, DeviceWallet.secret_key)
    /\ SubSeq(solana_tx.output, 2 + SOLANA_SIGNATURE_SIZE, Len(solana_tx.output))
         = CurrentMessage

\* without a signature nothing is emitted
C34_UnsignedIsRefused ==
    (solana_tx.stage = "live" /\ solana_tx.last = "serialize"
       /\ ~solana_tx.tx.has_signature)
        => (solana_tx.err = "ESP_ERR_INVALID_STATE" /\ solana_tx.output = <<>>)

-----------------------------------------------------------------------------
(* The five keys of the account table *)

\* C35 as stated: in every payment payload produced, the five keys of the
\* account table of the transaction are pairwise distinct.
C35_AccountKeysAreDistinct ==
    PayloadProduced =>
        \A i, j \in 0..4 :
            i < j => AccountAt(x_payment.tx_data, i) # AccountAt(x_payment.tx_data, j)

\* a challenge that names the device wallet as fee payer: the wallet's key
\* is in the table twice
C35_WalletNamedAsFeePayer ==
    /\ PayloadProduced
    /\ x_payment.sent
    /\ FirstOption.extra.feePayer = Field(KEY_TEXTS[1])
    /\ DecodeKey(KEY_TEXTS[1]).out = DeviceWallet.public_key
    /\ AccountAt(x_payment.tx_data, 0) = DeviceWallet.public_key
    /\ AccountAt(x_payment.tx_data, 1) = DeviceWallet.public_key

-----------------------------------------------------------------------------
(* The WiFi manager after a disconnect, and what a connect call returns *)

\* C36 as stated: from the return of wifi_manager_disconnect to the next
\* wifi_manager_connect, whatever events arrive, the manager starts no
\* connection attempt and wifi_manager_is_connected() is false.
C36_DisconnectedStaysDisconnected ==
    wifi.disconnected => (~wifi.reconnects /\ ~wifi_manager_is_connected(wifi))

\* the disconnect event that follows esp_wifi_disconnect makes the handler
\* connect again, and the address it then gets marks the manager connected
C36_ReconnectedBehindTheCaller ==
    /\ wifi.disconnected
    /\ wifi.at = "out"
    /\ wifi.reconnects
    /\ wifi.s_retry_count = 0
    /\ wifi_manager_is_connected(wifi)

\* C37 as stated: a wifi_manager_connect call that returned ESP_OK saw a
\* got-IP event after it began, and one that returned ESP_FAIL saw the
\* retry limit exhausted after it began.
C37_ResultComesFromTheCall ==
    wifi.at = "out" =>
        /\ wifi.connect_ret = "ESP_OK" => wifi.got_ip_in_call
        /\ wifi.connect_ret = "ESP_FAIL" => wifi.exhausted_in_call

\* a second call that returns ESP_OK on the bit left by an earlier got-IP
\* event, with the station disconnected
C37_StaleBitDecides ==
    /\ wifi.at = "out"
    /\ wifi.connects = 2
    /\ wifi.connect_ret = "ESP_OK"
    /\ ~wifi.got_ip_in_call
    /\ ~wifi.exhausted_in_call
    /\ ~wifi_manager_is_connected(wifi)

\* C38 as stated: after any HTTP_EVENT_ON_DATA events of at most 4096 bytes
\* each, len + 1 <= capacity, every copy and its terminating NUL stayed
\* inside the allocated buffer, and len is the total number of bytes received.
C38_AccumulatorHoldsEveryByte ==
    response_data.events > 0 =>
        /\ response_data.len + 1 <= response_data.capacity
        /\ response_data.inside
        /\ response_data.len = response_data.received

\* the part of C38 the handler keeps: no write leaves the allocation
C38_WritesStayInside ==
    response_data.events > 0 =>
        /\ response_data.len + 1 <= response_data.capacity
        /\ response_data.inside

\* a request that returns a body shorter than what arrived: a failed realloc
\* dropped the block, and the next event began again at len = 0
C38_BytesDropped ==
    /\ response_data.stage = "returned"
    /\ response_data.data
    /\ response_data.leaked > 0
    /\ response_data.len < response_data.received

\* C39 as stated: for a header value of at most 4095 characters
\* x402_decode_settlement_response writes nothing outside decoded[2048],
\* the terminating NUL included, and a value that decodes to more than 2047
\* bytes is answered with an error and not terminated.
C39_DecodeStaysInTheBuffer ==
    (settlement_io.stage = "decoded" /\ settlement_io.value_len <= PAYMENT_RESPONSE_SIZE - 1) =>
        /\ settlement_io.terminated => settlement_io.nul_at < DECODED_SIZE
        /\ settlement_io.decoded_len > DECODED_SIZE - 1 =>
              (settlement_io.err # "ESP_OK" /\ ~settlement_io.terminated)

\* the decoded bytes themselves never leave the array: the decoder refuses
\* more than 2048 of them
C39_DecodedBytesFit ==
    (settlement_io.stage = "decoded" /\ settlement_io.err = "ESP_OK") =>
        settlement_io.decoded_len <= DECODED_SIZE

\* 2732 characters with one padding character decode to exactly 2048 bytes:
\* accepted, and the NUL goes to decoded[2048]
C39_NulPastTheBuffer ==
    /\ settlement_io.stage = "decoded"
    /\ settlement_io.value_len = 2732
    /\ settlement_io.err = "ESP_OK"
    /\ settlement_io.decoded_len = DECODED_SIZE
    /\ settlement_io.terminated
    /\ settlement_io.nul_at = DECODED_SIZE

====
